---- MODULE Spec2Model ----
(***************************************************************************)
(* dnsctl: zone lifecycle coordinator (create / delete), per-zone flock,   *)
(* nameserver control adapter (rndc), the RFC 2136 catalog updates, the    *)
(* RRset operations of the rrset manager (upsert / delete / get), the ACME *)
(* handler, and the functions on names and serials, called one at a time.  *)
(*                                                                         *)
(* Names are sequences of one-character strings.  SHA-1 is modelled as an  *)
(* injective function of the wire form (the digest of a byte string is     *)
(* the byte string itself).  Every call that leaves the process (rndc, the *)
(* DNS exchange, the filesystem) may succeed or fail; a DNS exchange may   *)
(* also be applied by the server and lose its response.                    *)
(***************************************************************************)
EXTENDS Integers, Sequences, FiniteSets, TLC

\* ------------------------------------------------------------------ bounds

\* Operations started in one behaviour, all processes together.
MaxOps == 3

\* ------------------------------------------------------------------ names

maxDomainLength == 253
maxLabelLength == 63

LowerChars == {"a", "b"}
UpperChars == {"A", "B"}
DigitChars == {"0"}

\* strings.ToLower on one character.
LowerChar(c) ==
    CASE c = "A" -> "a"
      [] c = "B" -> "b"
      [] OTHER -> c

ToLower(s) == [i \in 1..Len(s) |-> LowerChar(s[i])]

HasSuffix(s, suf) ==
    /\ Len(s) >= Len(suf)
    /\ SubSeq(s, Len(s) - Len(suf) + 1, Len(s)) = suf

HasPrefix(s, pre) ==
    /\ Len(s) >= Len(pre)
    /\ SubSeq(s, 1, Len(pre)) = pre

TrimSuffix(s, suf) ==
    IF HasSuffix(s, suf) THEN SubSeq(s, 1, Len(s) - Len(suf)) ELSE s

RECURSIVE TrimLeft(_)
TrimLeft(s) ==
    IF s # <<>> /\ Head(s) = " " THEN TrimLeft(Tail(s)) ELSE s

RECURSIVE TrimRight(_)
TrimRight(s) ==
    IF s # <<>> /\ s[Len(s)] = " " THEN TrimRight(SubSeq(s, 1, Len(s) - 1)) ELSE s

TrimSpace(s) == TrimRight(TrimLeft(s))

\* strings.Split(s, "."): the labels between the dots, empty ones included.
RECURSIVE SplitDot(_, _)
SplitDot(s, cur) ==
    IF s = <<>> THEN <<cur>>
    ELSE IF Head(s) = "." THEN <<cur>> \o SplitDot(Tail(s), <<>>)
    ELSE SplitDot(Tail(s), Append(cur, Head(s)))

Split(s) == SplitDot(s, <<>>)

dnsLabels(name) ==
    LET t == TrimSpace(name)
        n == IF HasSuffix(t, <<".">>) THEN SubSeq(t, 1, Len(t) - 1) ELSE t
    IN  IF n = <<>> THEN <<>> ELSE Split(n)

isDNSLabelChar(ch) == ch \in LowerChars \cup DigitChars \cup {"-"}

\* idna.New(MapForLookup(), StrictDomainName(true)).ToASCII on ASCII input:
\* STD3 rules refuse every character outside letters, digits, hyphen and the
\* label separator; a label may not begin or end with a hyphen, nor carry
\* hyphens in its third and fourth place.
IdnaLabelOK(l) ==
    \/ l = <<>>
    \/ /\ ~(Len(l) > 4 /\ l[3] = "-" /\ l[4] = "-")
       /\ l[1] # "-"
       /\ l[Len(l)] # "-"

IdnaToASCII(s) ==
    LET charsOK == \A i \in 1..Len(s) : isDNSLabelChar(s[i]) \/ s[i] = "."
        ls == Split(s)
    IN  [ok |-> charsOK /\ \A i \in 1..Len(ls) : IdnaLabelOK(ls[i]), v |-> s]

\* A NormalizeZone that validates the name and hands back what it was given.
NormalizeZone_returnsInput(input0) ==
    LET lowered == ToLower(TrimSpace(input0))
        ascii == IdnaToASCII(lowered)
        dotted == IF HasSuffix(ascii.v, <<".">>) THEN ascii.v ELSE Append(ascii.v, ".")
        labels == dnsLabels(dotted)
        labelOK(l) ==
            /\ Len(l) # 0
            /\ Len(l) <= maxLabelLength
            /\ \A i \in 1..Len(l) : isDNSLabelChar(l[i])
            /\ ~(HasPrefix(l, <<"-">>) \/ HasSuffix(l, <<"-">>))
    IN  IF ~ascii.ok THEN [ok |-> FALSE, v |-> <<>>]
        ELSE IF Len(dotted) > maxDomainLength THEN [ok |-> FALSE, v |-> <<>>]
        ELSE IF Len(labels) = 0 THEN [ok |-> FALSE, v |-> <<>>]
        ELSE IF \E i \in 1..Len(labels) : ~labelOK(labels[i]) THEN [ok |-> FALSE, v |-> <<>>]
        ELSE [ok |-> TRUE, v |-> TrimSpace(input0)]

NormalizeZone(input0) ==
    LET lowered == ToLower(TrimSpace(input0))
        ascii == IdnaToASCII(lowered)
        dotted == IF HasSuffix(ascii.v, <<".">>) THEN ascii.v ELSE Append(ascii.v, ".")
        labels == dnsLabels(dotted)
        labelOK(l) ==
            /\ Len(l) # 0
            /\ Len(l) <= maxLabelLength
            /\ \A i \in 1..Len(l) : isDNSLabelChar(l[i])
            /\ ~(HasPrefix(l, <<"-">>) \/ HasSuffix(l, <<"-">>))
    IN  IF ~ascii.ok THEN [ok |-> FALSE, v |-> <<>>]
        ELSE IF Len(dotted) > maxDomainLength THEN [ok |-> FALSE, v |-> <<>>]
        ELSE IF Len(labels) = 0 THEN [ok |-> FALSE, v |-> <<>>]
        ELSE IF \E i \in 1..Len(labels) : ~labelOK(labels[i]) THEN [ok |-> FALSE, v |-> <<>>]
        ELSE [ok |-> TRUE, v |-> dotted]

\* The byte of one character of the alphabet.
CharByte(c) ==
    CASE c = "a" -> 97
      [] c = "b" -> 98
      [] c = "A" -> 65
      [] c = "B" -> 66
      [] c = "0" -> 48
      [] c = "-" -> 45
      [] c = " " -> 32
      [] c = "@" -> 64
      [] OTHER -> 46

\* dnsWireFormat: length-prefixed lowercase labels, empty labels skipped, root byte.
RECURSIVE WireLabels(_)
WireLabels(ls) ==
    IF ls = <<>> THEN <<>>
    ELSE IF Head(ls) = <<>> THEN WireLabels(Tail(ls))
    ELSE <<Len(Head(ls))>>
         \o [i \in 1..Len(Head(ls)) |-> CharByte(LowerChar(Head(ls)[i]))]
         \o WireLabels(Tail(ls))

\* A wire form without the length bytes: the characters of the labels, then the root byte.
dnsWireFormat_unprefixed(name0) ==
    LET t == SelectSeq(ToLower(TrimSpace(name0)), LAMBDA c : c # ".")
    IN  [i \in 1..Len(t) |-> CharByte(t[i])] \o <<0>>

dnsWireFormat(name0) ==
    LET t == TrimSpace(name0)
        name == IF HasSuffix(t, <<".">>) THEN t ELSE Append(t, ".")
    IN  WireLabels(Split(name)) \o <<0>>

\* hex(sha1(wire)): the digest stands for the bytes it was computed from, one
\* token of the label per byte.
SHA1WireLabel(zone) ==
    LET w == dnsWireFormat(zone) IN [i \in 1..Len(w) |-> ToString(w[i])]

\* config.LockFilePath / ZoneFilePath: the zone without its trailing dot names the file.
\* One lock file for all zones.
LockFilePath_shared(zone) == <<"lock">>

LockFilePath(zone) == <<"lock">> \o TrimSuffix(zone, <<".">>)
ZoneFilePath(zone) == <<"file">> \o TrimSuffix(zone, <<".">>)

\* ------------------------------------------------------------------ update transport

RcodeSuccess == 0
RcodeRefused == 5
TypeNone == 0
TypeA == 1
TypeNS == 2
TypeCNAME == 5
TypePTR == 12
TypeTXT == 16
CatalogTTL == 60

\* cfg.Catalog.Zone
CatalogZone == <<"c", ".">>

\* dns.Fqdn
Fqdn(s) == IF HasSuffix(s, <<".">>) THEN s ELSE Append(s, ".")

\* One owner name for every member of the catalog.
CatalogOwner_shared(catalogZone, label) ==
    <<"z", "o", "n", "e", "s", ".">> \o catalogZone

\* "<label>.zones.<catalog-zone>"
CatalogOwner(catalogZone, label) ==
    label \o <<".", "z", "o", "n", "e", "s", ".">> \o catalogZone

\* dns.Msg.RemoveRRset and dns.Msg.Insert, as entries of the update section.
RemoveRRset(name, type) == [kind |-> "delrrset", name |-> name, type |-> type]
Insert(rr) == [kind |-> "insert", rr |-> rr]

BuildPTRUpdate(catalogZone, memberZone, label, ttl) ==
    LET catalogOwner == CatalogOwner(catalogZone, label)
    IN  [zone |-> catalogZone,
         ns |-> << RemoveRRset(Fqdn(catalogOwner), TypePTR),
                   Insert([name |-> Fqdn(catalogOwner), type |-> TypePTR,
                           ttl |-> ttl, rdata |-> Fqdn(memberZone)]) >>]

\* A PTR delete addressed to the label directly under the catalog zone.
BuildPTRDelete_atCatalogApex(catalogZone, label) ==
    [zone |-> catalogZone,
     ns |-> << RemoveRRset(Fqdn(label \o <<".">> \o catalogZone), TypePTR) >>]

BuildPTRDelete(catalogZone, label) ==
    LET catalogOwner == CatalogOwner(catalogZone, label)
    IN  [zone |-> catalogZone,
         ns |-> << RemoveRRset(Fqdn(catalogOwner), TypePTR) >>]

\* The server's side of RFC 2136, section 3.4.2: the update section is applied in order.
ApplyOne(rrs, u) ==
    IF u.kind = "delrrset"
    THEN {rr \in rrs : ~(rr.name = u.name /\ rr.type = u.type)}
    ELSE LET here == {rr \in rrs : rr.name = u.rr.name}
         IN  IF u.rr.type = TypeCNAME
             THEN IF \E rr \in here : rr.type # TypeCNAME
                  THEN rrs
                  ELSE (rrs \ here) \cup {u.rr}
             ELSE IF \E rr \in here : rr.type = TypeCNAME
                  THEN rrs
                  ELSE rrs \cup {u.rr}

RECURSIVE ApplyUpdate(_, _)
ApplyUpdate(rrs, ns) ==
    IF ns = <<>> THEN rrs ELSE ApplyUpdate(ApplyOne(rrs, Head(ns)), Tail(ns))

\* What can happen to one exchange: the request reaches the server or not, the
\* server answers with an Rcode, the response arrives or not.
Exchanges ==
    [reached : {TRUE}, rcode : {RcodeSuccess, RcodeRefused}, delivered : BOOLEAN]
        \cup {[reached |-> FALSE, rcode |-> RcodeRefused, delivered |-> FALSE]}

\* The server applies an update it answers with NOERROR.
Applied(x) == x.reached /\ x.rcode = RcodeSuccess

\* A send that takes every response that arrives for a success.
sendOK_anyRcode(x) == x.reached /\ x.delivered

\* Client.send: an error unless a response arrived whose Rcode is NOERROR.
sendOK(x) == x.reached /\ x.delivered /\ x.rcode = RcodeSuccess

\* ------------------------------------------------------------------ state

Procs == {"p1", "p2"}
Zones == {<<"a", ".">>, <<"b", ".">>}
ZoneInputs == {<<"A">>, <<"b", ".">>, <<"-">>}

LockPaths == {LockFilePath(z) : z \in Zones}

VARIABLES
    pc,          \* where each process stands in its operation
    op,          \* the operation of each process: its arguments, locals and result
    held,        \* Lock.held of the operation's lock handle
    flock,       \* the kernel's table: the handles holding the flock of each lock file
    file,        \* whether the zone file of each zone exists
    registered,  \* the nameserver's zone registry
    db,          \* the resource records the nameserver serves (catalog zone included)
    nops         \* operations started so far

vars == <<pc, op, held, flock, file, registered, db, nops>>

\* An operation: kind, zone (normalized), args, changes, err and got (the result
\* of a Get) are the code's; fx (the calls issued), bad (the calls that failed, or
\* took effect and lost their answer) and pre (the zone when the lock was taken,
\* the RRset before it was replaced) are kept for the properties.
\* No exchange has been made.
NoExchange == [reached |-> FALSE, rcode |-> RcodeSuccess, delivered |-> FALSE]

NoOp ==
    [kind |-> "none", zone |-> <<>>, changes |-> <<>>, err |-> "",
     args |-> [owner |-> <<>>, type |-> "", ttl |-> 0, rdata |-> <<>>],
     fx |-> {}, bad |-> {}, xchg |-> NoExchange,
     pre |-> [reg |-> FALSE, file |-> FALSE, mem |-> FALSE, rrs |-> {}],
     got |-> [found |-> FALSE, ttl |-> 0, rdata |-> <<>>],
     res |-> [ok |-> FALSE, code |-> -1, exit |-> -1, message |-> "",
              changes |-> <<>>, warnings |-> <<>>]]

\* Catalog membership of a zone as the server holds it.
InCatalog(rrs, zone) ==
    \E rr \in rrs : rr.name = Fqdn(CatalogOwner(CatalogZone, SHA1WireLabel(zone)))
                    /\ rr.type = TypePTR

Init ==
    /\ pc = [p \in Procs |-> "idle"]
    /\ op = [p \in Procs |-> NoOp]
    /\ held = [p \in Procs |-> FALSE]
    /\ flock = [l \in LockPaths |-> {}]
    /\ file = [z \in Zones |-> FALSE]
    /\ registered = [z \in Zones |-> FALSE]
    /\ db = {}
    /\ nops = 0

\* ------------------------------------------------------------------ lock

\* A lock that is granted whoever holds it.
AcquireOK_ignoresHolder(p, path) == ~held[p]

\* Lock.Acquire: refuses a handle that already holds; flock(LOCK_EX|LOCK_NB)
\* fails when another open file description holds the lock.
AcquireOK(p, path) == ~held[p] /\ flock[path] = {}

\* An Acquire that sets held without taking the flock.
Acquire_withoutFlock(p, path) ==
    /\ held' = [held EXCEPT ![p] = TRUE]
    /\ UNCHANGED flock

Acquire(p, path) ==
    /\ held' = [held EXCEPT ![p] = TRUE]
    /\ flock' = [flock EXCEPT ![path] = @ \cup {p}]

\* A Release that clears held and leaves the flock in place.
Release_leavesFlock(p, path) ==
    /\ held' = [held EXCEPT ![p] = FALSE]
    /\ UNCHANGED flock

\* Lock.Release (deferred): a handle that holds nothing is left alone.
Release(p, path) ==
    IF ~held[p]
    THEN UNCHANGED <<held, flock>>
    ELSE /\ held' = [held EXCEPT ![p] = FALSE]
         /\ flock' = [flock EXCEPT ![path] = @ \ {p}]

\* ------------------------------------------------------------------ adapters

\* One rndc run: the server acts and rndc reports it, rndc fails before the
\* server acts, or the server acts and rndc is killed at its timeout.
RndcRuns == {"ok", "fail", "lost"}
ServerActs(o) == o \in {"ok", "lost"}

\* A filesystem call.
FsCalls == {"ok", "fail"}

\* The call that did not run as asked, if any: its tag, or its tag with "_lost"
\* when it took effect and reported an error.
BadRndc(tag, o) ==
    IF o = "fail" THEN {tag} ELSE IF o = "lost" THEN {tag \o "_lost"} ELSE {}

BadFs(tag, o) == IF o = "fail" THEN {tag} ELSE {}

BadExchange(tag, x) ==
    IF sendOK(x) THEN {} ELSE IF Applied(x) THEN {tag \o "_lost"} ELSE {tag}

\* RNDCClient.AddZone returns nil: rndc ran to its end and named took the zone;
\* named refuses a zone it already has ("already exists").
AddZoneOK(zone, o) == o = "ok" /\ ~registered[zone]

\* The records of the server that belong to a zone.
ServedBy(rr, zone) == HasSuffix(rr.name, zone)

\* rndc delzone -clean at the server: a registered zone leaves the registry with
\* its records, and named removes its file as far as it can.
DelZone(zone, o) ==
    IF ServerActs(o) /\ registered[zone]
    THEN /\ registered' = [registered EXCEPT ![zone] = FALSE]
         /\ db' = {rr \in db : ~ServedBy(rr, zone)}
         /\ \E f \in {FALSE, file[zone]} : file' = [file EXCEPT ![zone] = f]
    ELSE UNCHANGED <<registered, file, db>>

\* A DelZone whose error is dropped.
DelZoneOK_ignoresError(zone, o) == TRUE

\* RNDCClient.DelZone returns nil: rndc ran to its end and the server had the zone.
DelZoneOK(zone, o) == o = "ok" /\ registered[zone]

\* A removal that leaves the file where it is.
RemoveZoneFile_keeps(zone, o) == UNCHANGED file

\* RemoveZoneFile: os.Remove; a file that is not there is no error.
RemoveZoneFile(zone, o) ==
    file' = [file EXCEPT ![zone] = IF o = "ok" THEN FALSE ELSE @]

\* ------------------------------------------------------------------ operations

Goto(p, l) == pc' = [pc EXCEPT ![p] = l]

\* The call tagged `tag` was issued; `bad` says how it went wrong, if it did.
\* xchg is the exchange of the last call, if that was an update or a query.
Called(o, tag, bad) ==
    [o EXCEPT !.fx = @ \cup {tag}, !.bad = @ \cup bad, !.xchg = NoExchange]

\* The exchange x of the update tagged `tag` was made.
Exchanged(o, tag, x) == [Called(o, tag, BadExchange(tag, x)) EXCEPT !.xchg = x]

\* return fmt.Errorf(msg, err)
Fail(p, o, msg) ==
    /\ pc' = [pc EXCEPT ![p] = "ret"]
    /\ op' = [op EXCEPT ![p] = [o EXCEPT !.err = msg]]

Snapshot(zone) ==
    [reg |-> registered[zone], file |-> file[zone], mem |-> InCatalog(db, zone),
     rrs |-> {}]

\* What NormalizeZone makes of the zone arguments in use.
ZoneCalls == {NormalizeZone(input) : input \in ZoneInputs}

\* A command starts: the operation's first step normalizes the zone argument.
Start(p, kind, first) ==
    /\ pc[p] \in {"idle", "done"}
    /\ nops < MaxOps
    /\ nops' = nops + 1
    /\ \E n \in ZoneCalls :
         LET o == [NoOp EXCEPT !.kind = kind]
         IN  IF n.ok
             THEN /\ op' = [op EXCEPT ![p] = [o EXCEPT !.zone = n.v]]
                  /\ Goto(p, first)
             ELSE Fail(p, o, "invalid zone name")
    /\ UNCHANGED <<held, flock, file, registered, db>>

\* Acquire the zone lock of the operation, or return the error.
LockStep(p, at, next) ==
    /\ pc[p] = at
    /\ LET path == LockFilePath(op[p].zone)
       IN  IF AcquireOK(p, path)
           THEN /\ Acquire(p, path)
                /\ Goto(p, next)
                /\ op' = [op EXCEPT ![p].pre = Snapshot(op[p].zone)]
           ELSE /\ UNCHANGED <<held, flock>>
                /\ Fail(p, op[p], "failed to acquire zone lock")
    /\ UNCHANGED <<file, registered, db, nops>>

\* ---- Creator.CreateZone

CreateStart(p) == Start(p, "create", "c_lock")

CreateLock(p) == LockStep(p, "c_lock", "c_dirs")

CreateEnsureDirs(p) ==
    /\ pc[p] = "c_dirs"
    /\ \E o \in FsCalls :
         LET c == Called(op[p], "dirs", BadFs("dirs", o))
         IN  IF o = "ok"
             THEN Goto(p, "c_status") /\ op' = [op EXCEPT ![p] = c]
             ELSE Fail(p, c, "failed to ensure directories")
    /\ UNCHANGED <<held, flock, file, registered, db, nops>>

\* A Create that never looks at the answer of ZoneStatus.
CreateTakesExistingPath_never(o, zone) == FALSE

\* exists, _, err := c.rndc.ZoneStatus(zone); if err == nil && exists { ... }
CreateTakesExistingPath(o, zone) == o = "ok" /\ registered[zone]

CreateZoneStatus(p) ==
    /\ pc[p] = "c_status"
    /\ \E o \in {"ok", "fail"} :
         LET c == Called(op[p], "status", BadRndc("status", o))
         IN  IF CreateTakesExistingPath(o, op[p].zone)
             THEN /\ op' = [op EXCEPT ![p] =
                              [c EXCEPT !.changes = Append(@, "zone_already_exists")]]
                  /\ Goto(p, "c_ensure_existing")
             ELSE /\ op' = [op EXCEPT ![p] = c]
                  /\ Goto(p, "c_write")
    /\ UNCHANGED <<held, flock, file, registered, db, nops>>

CreateWriteZoneFile(p) ==
    /\ pc[p] = "c_write"
    /\ \E o \in FsCalls :
         LET c == Called(op[p], "write", BadFs("write", o))
         IN  IF o = "ok"
             THEN /\ file' = [file EXCEPT ![op[p].zone] = TRUE]
                  /\ op' = [op EXCEPT ![p] =
                              [c EXCEPT !.changes = Append(@, "zone_file_created")]]
                  /\ Goto(p, "c_addzone")
             ELSE /\ UNCHANGED file
                  /\ Fail(p, c, "failed to write zone file")
    /\ UNCHANGED <<held, flock, registered, db, nops>>

\* c.rndc.AddZone(zone, zoneConfig)
CreateAddZone(p) ==
    /\ pc[p] = "c_addzone"
    /\ LET zone == op[p].zone IN
       \E o \in RndcRuns :
         LET c == Called(op[p], "addzone", BadRndc("addzone", o))
         IN  /\ registered' = [registered EXCEPT ![zone] = @ \/ ServerActs(o)]
             /\ IF AddZoneOK(zone, o)
                THEN /\ op' = [op EXCEPT ![p] =
                                 [c EXCEPT !.changes = Append(@, "zone_added")]]
                     /\ Goto(p, "c_ensure")
                ELSE /\ op' = [op EXCEPT ![p] =
                                 IF ServerActs(o) /\ registered[zone]
                                 THEN Called(c, "addzone_already_exists", {})
                                 ELSE c]
                     /\ Goto(p, "c_addzone_failed")
    /\ UNCHANGED <<held, flock, file, db, nops>>

\* _ = RemoveZoneFile(zoneFilePath); return "failed to add zone via RNDC"
CreateAddZoneFailed(p) ==
    /\ pc[p] = "c_addzone_failed"
    /\ \E o \in FsCalls :
         /\ RemoveZoneFile(op[p].zone, o)
         /\ Fail(p, Called(op[p], "rmfile", BadFs("rmfile", o)),
                 "failed to add zone via RNDC")
    /\ UNCHANGED <<held, flock, registered, db, nops>>

\* Creator.ensureCatalogMembership: build the PTR update and send it.
ensureCatalogMembership(p, x, errNext) ==
    LET zone == op[p].zone
        updateMsg == BuildPTRUpdate(CatalogZone, zone, SHA1WireLabel(zone), CatalogTTL)
        c == Exchanged(op[p], "ensure", x)
    IN  /\ db' = IF Applied(x) THEN ApplyUpdate(db, updateMsg.ns) ELSE db
        /\ IF sendOK(x)
           THEN /\ op' = [op EXCEPT ![p] =
                            [c EXCEPT !.changes = Append(@, "catalog_updated")]]
                /\ Goto(p, "ret")
           ELSE /\ op' = [op EXCEPT ![p] =
                            [c EXCEPT !.err = "failed to send catalog update"]]
                /\ Goto(p, errNext)

\* The zone existed: return c.ensureCatalogMembership(zone, changes)
CreateEnsureExisting(p) ==
    /\ pc[p] = "c_ensure_existing"
    /\ \E x \in Exchanges : ensureCatalogMembership(p, x, "ret")
    /\ UNCHANGED <<held, flock, file, registered, nops>>

\* Step 9 of the fresh path; an error starts the rollback.
CreateEnsure(p) ==
    /\ pc[p] = "c_ensure"
    /\ \E x \in Exchanges : ensureCatalogMembership(p, x, "c_rollback_delzone")
    /\ UNCHANGED <<held, flock, file, registered, nops>>

\* _ = c.rndc.DelZone(zone, true)
CreateRollbackDelZone(p) ==
    /\ pc[p] = "c_rollback_delzone"
    /\ \E o \in RndcRuns :
         /\ DelZone(op[p].zone, o)
         /\ op' = [op EXCEPT ![p] = Called(op[p], "delzone", BadRndc("delzone", o))]
    /\ Goto(p, "c_rollback_rmfile")
    /\ UNCHANGED <<held, flock, nops>>

\* _ = RemoveZoneFile(zoneFilePath); return "failed to update catalog zone"
CreateRollbackRemoveFile(p) ==
    /\ pc[p] = "c_rollback_rmfile"
    /\ \E o \in FsCalls :
         /\ RemoveZoneFile(op[p].zone, o)
         /\ Fail(p, Called(op[p], "rmfile", BadFs("rmfile", o)),
                 "failed to update catalog zone")
    /\ UNCHANGED <<held, flock, registered, db, nops>>

\* ---- Deleter.DeleteZone

DeleteStart(p) == Start(p, "delete", "d_lock")

DeleteLock(p) == LockStep(p, "d_lock", "d_catalog")

\* A Delete that goes on to DelZone whatever the catalog update answered.
DeleteCatalogRemoved_ignoresError(x) == TRUE

\* if err := d.removeFromCatalog(zone, changes); err != nil { return ... }
DeleteCatalogRemoved(x) == sendOK(x)

\* Deleter.removeFromCatalog
DeleteRemoveFromCatalog(p) ==
    /\ pc[p] = "d_catalog"
    /\ LET zone == op[p].zone
           updateMsg == BuildPTRDelete(CatalogZone, SHA1WireLabel(zone))
       IN  \E x \in Exchanges :
             LET c == Exchanged(op[p], "remove", x)
             IN  /\ db' = IF Applied(x) THEN ApplyUpdate(db, updateMsg.ns) ELSE db
                 /\ IF DeleteCatalogRemoved(x)
                    THEN /\ op' = [op EXCEPT ![p] =
                                     [c EXCEPT !.changes = Append(@, "catalog_updated")]]
                         /\ Goto(p, "d_delzone")
                    ELSE Fail(p, c, "failed to remove from catalog")
    /\ UNCHANGED <<held, flock, file, registered, nops>>

\* d.rndc.DelZone(zone, true)
DeleteDelZone(p) ==
    /\ pc[p] = "d_delzone"
    /\ LET zone == op[p].zone IN
       \E o \in RndcRuns :
         LET c == Called(op[p], "delzone", BadRndc("delzone", o))
         IN  /\ DelZone(zone, o)
             /\ IF DelZoneOK(zone, o)
                THEN /\ op' = [op EXCEPT ![p] =
                                 [c EXCEPT !.changes = Append(@, "zone_deleted")]]
                     /\ Goto(p, "d_rmfile")
                ELSE Fail(p, c, "failed to delete zone via RNDC")
    /\ UNCHANGED <<held, flock, nops>>

\* Step 5: RemoveZoneFile, best effort; both outcomes are appended to changes.
DeleteRemoveFile(p) ==
    /\ pc[p] = "d_rmfile"
    /\ \E o \in FsCalls :
         LET c == Called(op[p], "rmfile", BadFs("rmfile", o))
         IN  /\ RemoveZoneFile(op[p].zone, o)
             /\ op' = [op EXCEPT ![p] =
                         [c EXCEPT !.changes =
                             Append(@, IF o = "ok" THEN "zone_file_removed"
                                       ELSE "zone_file_cleanup_failed")]]
    /\ Goto(p, "ret")
    /\ UNCHANGED <<held, flock, registered, db, nops>>

\* ---- rrset: validation (Manager.Upsert, Manager.Delete)

\* NormalizeOwner: "@" is the apex, a name with a trailing dot must end with the
\* zone (as strings), a relative name gets the zone appended.
NormalizeOwner(input0, zone) ==
    LET input == TrimSpace(input0)
    IN  IF input = <<"@">> THEN [ok |-> TRUE, v |-> zone]
        ELSE IF HasSuffix(input, <<".">>)
        THEN IF ~HasSuffix(ToLower(input), ToLower(zone))
             THEN [ok |-> FALSE, v |-> <<>>]
             ELSE [ok |-> TRUE, v |-> ToLower(input)]
        ELSE [ok |-> TRUE, v |-> ToLower(input \o <<".">> \o zone)]

IsApexOwner(owner0, zone0) ==
    LET owner == ToLower(owner0)
        zone == ToLower(zone0)
    IN  Fqdn(owner) = Fqdn(zone)

\* cfg.Policy of DefaultConfig.
MinTTL == 30
MaxTTL == 86400
AllowedRRtypes == {"A", "AAAA", "CNAME", "TXT", "MX", "SRV", "CAA"}
DisallowApexCNAME == TRUE
DisallowNSUpdates == TRUE

ValidateTTL(ttl) == ~(ttl < MinTTL) /\ ~(ttl > MaxTTL)

\* strings.ToUpper on the type mnemonics in use.
ToUpperType(t) ==
    CASE t = "a" -> "A"
      [] t = "cname" -> "CNAME"
      [] t = "ns" -> "NS"
      [] t = "txt" -> "TXT"
      [] OTHER -> t

\* strings.EqualFold
EqualFold(a, b) == ToUpperType(a) = ToUpperType(b)

\* Config.IsAllowedRRType, of a configuration whose policy allows `allowed`.
IsAllowedRRType(allowed, rrType) == \E a \in allowed : EqualFold(rrType, a)

\* dns.StringToType: the table knows the upper-case mnemonics only.
StringToType(t) ==
    CASE t = "A" -> TypeA
      [] t = "NS" -> TypeNS
      [] t = "CNAME" -> TypeCNAME
      [] t = "PTR" -> TypePTR
      [] t = "TXT" -> TypeTXT
      [] OTHER -> TypeNone

\* dns.TypeToString
TypeToString(n) ==
    CASE n = TypeA -> "A"
      [] n = TypeNS -> "NS"
      [] n = TypeCNAME -> "CNAME"
      [] n = TypePTR -> "PTR"
      [] n = TypeTXT -> "TXT"
      [] OTHER -> "None"

\* An RDATA value is a text: a sequence of tokens, a name one character a token,
\* an address one token. net.ParseIP on the addresses in use: the four bytes, or nil.
ParseIP(s) ==
    IF s = <<"192.0.2.1">> THEN <<"192", "0", "2", "1">>
    ELSE IF s = <<"192.0.2.2">> THEN <<"192", "0", "2", "2">>
    ELSE <<>>

\* net.IP.String
IPString(ip) ==
    IF ip = <<"192", "0", "2", "1">> THEN <<"192.0.2.1">>
    ELSE IF ip = <<"192", "0", "2", "2">> THEN <<"192.0.2.2">>
    ELSE <<"<nil>">>

Has(seq, e) == \E i \in 1..Len(seq) : seq[i] = e

\* net.ParseIP(ip) # nil and no ":" in ip.
IsIPv4(s) == ParseIP(s) # <<>> /\ ~Has(s, ":")

\* Validator.ValidateRDATA for the types in use.
ValidateRDATA(allowed, rrType0, rdata) ==
    LET rrType == ToUpperType(rrType0)
    IN  /\ IsAllowedRRType(allowed, rrType)
        /\ CASE rrType = "A" ->
                  Len(rdata) # 0 /\ \A i \in 1..Len(rdata) : IsIPv4(rdata[i])
             [] rrType = "CNAME" -> Len(rdata) # 0 /\ TrimSpace(rdata[1]) # <<>>
             [] OTHER -> Len(rdata) # 0

\* A policy gate that knows the apex CNAME ban only.
ValidatePolicy_apexOnly(zone, owner, rrType) ==
    IF DisallowApexCNAME /\ ToUpperType(rrType) = "CNAME" /\ IsApexOwner(owner, zone)
    THEN "CNAME at zone apex is not allowed"
    ELSE ""

\* Validator.ValidatePolicy: the message of its error, "" for nil.
ValidatePolicy(zone, owner, rrType) ==
    IF DisallowApexCNAME /\ ToUpperType(rrType) = "CNAME" /\ IsApexOwner(owner, zone)
    THEN "CNAME at zone apex is not allowed"
    ELSE IF DisallowNSUpdates /\ ToUpperType(rrType) = "NS"
    THEN "NS record updates are not allowed"
    ELSE ""

\* BuildRR for the types in use: the header, and the rdata as the record holds
\* it (the parsed address, the fully qualified target).
BuildRR(owner, rrType0, ttl, rdata) ==
    LET rrType == ToUpperType(rrType0)
    IN  [name |-> Fqdn(owner), type |-> StringToType(rrType), ttl |-> ttl,
         rdata |-> CASE rrType = "A" -> ParseIP(rdata)
                     [] rrType = "CNAME" -> Fqdn(rdata)
                     [] rrType = "NS" -> Fqdn(rdata)
                     [] OTHER -> rdata]

\* Client.AddRRset: remove the RRset of the first record, then insert the records.
AddRRset(zone, rrs) ==
    [zone |-> zone,
     ns |-> (IF Len(rrs) > 0
             THEN <<RemoveRRset(rrs[1].name, rrs[1].type)>> ELSE <<>>)
            \o [i \in 1..Len(rrs) |-> Insert(rrs[i])]]

\* Client.DeleteRRset
DeleteRRset(zone, owner, rrType) ==
    [zone |-> zone, ns |-> <<RemoveRRset(Fqdn(owner), rrType)>>]

\* The server answers NOERROR only to an update of a zone it has.
ZoneExchanges(zone) ==
    {x \in Exchanges : x.rcode = RcodeSuccess => registered[zone]}

RRsetZoneInputs == {<<"A">>, <<"-">>}
OwnerInputs == {<<"@">>, <<"b">>}
RRTypeInputs == {"A", "a", "CNAME", "NS"}
TTLInputs == {MinTTL - 1, MinTTL}
RDataInputs == {<<>>, << <<"192.0.2.1">> >>}

\* ---- Manager.Upsert

\* The steps of Upsert before the lock: the error it returns, or the normalized
\* zone and the arguments of the update.
UpsertValidate(allowed, zoneInput, ownerInput, rrType, ttl, rdata) ==
    LET zoneFQDN == NormalizeZone(zoneInput)
        owner == NormalizeOwner(ownerInput, zoneFQDN.v)
        rrTypeUpper == LET t == TypeToString(StringToType(rrType))
                       IN  IF t = "" THEN rrType ELSE t
        rejected(msg) == [err |-> msg, zone |-> <<>>, args |-> NoOp.args]
    IN  IF ~zoneFQDN.ok THEN rejected("invalid zone")
        ELSE IF ~owner.ok THEN rejected("invalid owner")
        ELSE IF ~ValidateTTL(ttl) THEN rejected("invalid TTL")
        ELSE IF ~IsAllowedRRType(allowed, rrTypeUpper)
             THEN rejected("RR type " \o rrTypeUpper \o " is not allowed")
        ELSE IF ~ValidateRDATA(allowed, rrTypeUpper, rdata) THEN rejected("invalid RDATA")
        ELSE IF ValidatePolicy(zoneFQDN.v, owner.v, rrTypeUpper) # ""
             THEN rejected("policy violation: "
                            \o ValidatePolicy(zoneFQDN.v, owner.v, rrTypeUpper))
        ELSE [err |-> "", zone |-> zoneFQDN.v,
              args |-> [owner |-> owner.v, type |-> rrTypeUpper,
                        ttl |-> ttl, rdata |-> rdata]]

\* What the calls of Upsert in use come to.
UpsertCalls ==
    {UpsertValidate(AllowedRRtypes, z, o, t, ttl, rd) :
        z \in RRsetZoneInputs, o \in OwnerInputs, t \in RRTypeInputs,
        ttl \in TTLInputs, rd \in RDataInputs}

\* A manager that takes the zone lock before it validates its arguments.
ManagerStart_locksFirst(p, kind, first, calls) ==
    /\ pc[p] \in {"idle", "done"}
    /\ nops < MaxOps
    /\ nops' = nops + 1
    /\ \E v \in calls :
         LET o == [NoOp EXCEPT !.kind = kind]
         IN  IF v.err # ""
             THEN Fail(p, Called(o, "lock", {}), v.err)
             ELSE /\ op' = [op EXCEPT ![p] = [o EXCEPT !.zone = v.zone, !.args = v.args]]
                  /\ Goto(p, first)
    /\ UNCHANGED <<held, flock, file, registered, db>>

\* An operation of the rrset manager starts: it validates its arguments.
ManagerStart(p, kind, first, calls) ==
    /\ pc[p] \in {"idle", "done"}
    /\ nops < MaxOps
    /\ nops' = nops + 1
    /\ \E v \in calls :
         LET o == [NoOp EXCEPT !.kind = kind]
         IN  IF v.err # ""
             THEN Fail(p, o, v.err)
             ELSE /\ op' = [op EXCEPT ![p] = [o EXCEPT !.zone = v.zone, !.args = v.args]]
                  /\ Goto(p, first)
    /\ UNCHANGED <<held, flock, file, registered, db>>

UpsertStart(p) == ManagerStart(p, "upsert", "u_lock", UpsertCalls)

UpsertLock(p) == LockStep(p, "u_lock", "u_send")

\* The RRset of the server at a name and type.
RRsetAt(rrs, name, type) == {rr \in rrs : rr.name = name /\ rr.type = type}

\* Build the records and send the replacement of the RRset.
UpsertSend(p) ==
    /\ pc[p] = "u_send"
    /\ LET a == op[p].args
           rrs == [i \in 1..Len(a.rdata) |-> BuildRR(a.owner, a.type, a.ttl, a.rdata[i])]
           updateMsg == AddRRset(op[p].zone, rrs)
       IN  \E x \in ZoneExchanges(op[p].zone) :
             LET c == [Exchanged(op[p], "rrset_replace", x)
                         EXCEPT !.pre.rrs = {rr \in db : ServedBy(rr, op[p].zone)}]
             IN  /\ db' = IF Applied(x) THEN ApplyUpdate(db, updateMsg.ns) ELSE db
                 /\ IF sendOK(x)
                    THEN Goto(p, "ret") /\ op' = [op EXCEPT ![p] = c]
                    ELSE Fail(p, c, "failed to send update")
    /\ UNCHANGED <<held, flock, file, registered, nops>>

\* ---- Manager.Delete

\* The steps of Delete before the lock.
DeleteValidate(allowed, zoneInput, ownerInput, rrType) ==
    LET zoneFQDN == NormalizeZone(zoneInput)
        owner == NormalizeOwner(ownerInput, zoneFQDN.v)
        rrTypeUpper == IF StringToType(rrType) # TypeNone
                       THEN TypeToString(StringToType(rrType)) ELSE rrType
        rejected(msg) == [err |-> msg, zone |-> <<>>, args |-> NoOp.args]
    IN  IF ~zoneFQDN.ok THEN rejected("invalid zone")
        ELSE IF ~owner.ok THEN rejected("invalid owner")
        ELSE IF ~IsAllowedRRType(allowed, rrTypeUpper)
             THEN rejected("RR type " \o rrTypeUpper \o " is not allowed")
        ELSE IF ValidatePolicy(zoneFQDN.v, owner.v, rrTypeUpper) # ""
             THEN rejected("policy violation: "
                            \o ValidatePolicy(zoneFQDN.v, owner.v, rrTypeUpper))
        ELSE [err |-> "", zone |-> zoneFQDN.v,
              args |-> [owner |-> owner.v, type |-> rrTypeUpper,
                        ttl |-> 0, rdata |-> <<>>]]

RRsetDeleteCalls ==
    {DeleteValidate(AllowedRRtypes, z, o, t) : z \in RRsetZoneInputs, o \in OwnerInputs, t \in RRTypeInputs}

RRsetDeleteStart(p) == ManagerStart(p, "rrset_delete", "x_lock", RRsetDeleteCalls)

RRsetDeleteLock(p) == LockStep(p, "x_lock", "x_send")

\* typeNum := dns.StringToType[rrTypeUpper]; m.update.DeleteRRset(zone, owner, typeNum)
RRsetDeleteSend(p) ==
    /\ pc[p] = "x_send"
    /\ LET a == op[p].args
           updateMsg == DeleteRRset(op[p].zone, a.owner, StringToType(a.type))
       IN  \E x \in ZoneExchanges(op[p].zone) :
             LET c == Exchanged(op[p], "rrset_delete", x)
             IN  /\ db' = IF Applied(x) THEN ApplyUpdate(db, updateMsg.ns) ELSE db
                 /\ IF sendOK(x)
                    THEN Goto(p, "ret") /\ op' = [op EXCEPT ![p] = c]
                    ELSE Fail(p, c, "failed to send delete update")
    /\ UNCHANGED <<held, flock, file, registered, nops>>

\* ---- Manager.Get

RcodeNameError == 3

\* The steps of Get before the query.
GetValidate(zoneInput, ownerInput, rrType) ==
    LET zoneFQDN == NormalizeZone(zoneInput)
        owner == NormalizeOwner(ownerInput, zoneFQDN.v)
        rrTypeUpper == ToUpperType(rrType)
        rejected(msg) == [err |-> msg, zone |-> <<>>, args |-> NoOp.args]
    IN  IF ~zoneFQDN.ok THEN rejected("invalid zone")
        ELSE IF ~owner.ok THEN rejected("invalid owner")
        ELSE IF StringToType(rrTypeUpper) = TypeNone THEN rejected("unknown RR type")
        ELSE [err |-> "", zone |-> zoneFQDN.v,
              args |-> [owner |-> owner.v, type |-> rrTypeUpper,
                        ttl |-> 0, rdata |-> <<>>]]

\* The answer section of an authoritative server: the records of the name with
\* the type asked for, or the CNAME of the name.
Answer(rrs, name, type) ==
    {rr \in rrs : rr.name = name /\ rr.type \in {type, TypeCNAME}}

\* The RDATA of one answer as Get renders it.
RDataText(rr) == IF rr.type = TypeA THEN IPString(rr.rdata) ELSE rr.rdata

\* The orders in which the server may list a set of records.
Orders(S) ==
    {m \in [1..Cardinality(S) -> S] :
        \A i, j \in 1..Cardinality(S) : m[i] = m[j] => i = j}

\* What Get makes of an answer: the records of the type at the owner (names
\* compared without case), the TTL of the first one, their RDATA in answer order.
GetResults(rrs, owner, typeNum) ==
    LET matching == {rr \in Answer(rrs, Fqdn(owner), typeNum) :
                        rr.type = typeNum /\ ToLower(rr.name) = ToLower(owner)}
    IN  IF matching = {}
        THEN {NoOp.got}
        ELSE {[found |-> TRUE, ttl |-> m[1].ttl,
               rdata |-> [i \in 1..Len(m) |-> RDataText(m[i])]] : m \in Orders(matching)}

\* Client.Query returns a response: it arrived with NOERROR or NXDOMAIN.
QueryOK(x) == x.reached /\ x.delivered /\ x.rcode \in {RcodeSuccess, RcodeNameError}

\* The server answers NOERROR for a zone it has; NXDOMAIN for a name without records.
QueryExchanges(zone, owner) ==
    ZoneExchanges(zone)
        \cup {x \in {[reached |-> TRUE, rcode |-> RcodeNameError, delivered |-> TRUE]} :
                registered[zone] /\ ~\E rr \in db : rr.name = Fqdn(owner)}

GetQuery(p) ==
    /\ pc[p] = "g_query"
    /\ LET a == op[p].args IN
       \E x \in QueryExchanges(op[p].zone, a.owner) :
         LET c == [Called(op[p], "query", IF QueryOK(x) THEN {} ELSE {"query"})
                    EXCEPT !.xchg = x]
         IN  IF QueryOK(x)
             THEN /\ \E r \in GetResults(db, a.owner, StringToType(a.type)) :
                       op' = [op EXCEPT ![p] = [c EXCEPT !.got = r]]
                  /\ Goto(p, "ret")
             ELSE Fail(p, c, "DNS query failed")
    /\ UNCHANGED <<held, flock, file, registered, db, nops>>

\* ---- the command around the operation (zoneCreateCmd, zoneDeleteCmd)

ExitSuccess == 0
ExitValidationError == 2
ExitRuntimeFailure == 4
ExitConflictUnsafe == 5

\* audit.NewErrorResult(op, id, ExitRuntimeFailure, err.Error(), "") on an error,
\* else audit.NewResult with result.Changes = changes. In both cases RunE
\* returns what result.Output() returns, which is nil once the result is
\* printed, so main returns and the process ends with status 0.
CommandResult(o) ==
    IF o.err # ""
    THEN [ok |-> FALSE, code |-> ExitRuntimeFailure, exit |-> 0, message |-> o.err,
          changes |-> <<>>, warnings |-> <<>>]
    ELSE [ok |-> TRUE, code |-> ExitSuccess, exit |-> 0, message |-> "",
          changes |-> o.changes, warnings |-> <<>>]

\* What an operation of the rrset manager returns: its result or its error.
ManagerResult(o) ==
    [ok |-> o.err = "", code |-> NoOp.res.code, exit |-> NoOp.res.exit,
     message |-> o.err, changes |-> <<>>, warnings |-> <<>>]

\* The operation returns: the deferred Release runs and the command builds its
\* result. Of the bookkeeping, only whether AddZone was called and whether some
\* call went wrong outlive the operation.
Return(p) ==
    /\ pc[p] = "ret"
    /\ Release(p, LockFilePath(op[p].zone))
    /\ op' = [op EXCEPT ![p] =
                [NoOp EXCEPT !.kind = op[p].kind, !.zone = op[p].zone,
                             !.res = IF op[p].kind \in {"create", "delete"}
                                     THEN CommandResult(op[p])
                                     ELSE ManagerResult(op[p]),
                             !.fx = op[p].fx \cap {"addzone"},
                             !.bad = IF op[p].bad = {} THEN {} ELSE {"some"}]]
    /\ Goto(p, "done")
    /\ UNCHANGED <<file, registered, db, nops>>

Next ==
    \E p \in Procs :
        \/ CreateStart(p)
        \/ CreateLock(p)
        \/ CreateEnsureDirs(p)
        \/ CreateZoneStatus(p)
        \/ CreateWriteZoneFile(p)
        \/ CreateAddZone(p)
        \/ CreateAddZoneFailed(p)
        \/ CreateEnsureExisting(p)
        \/ CreateEnsure(p)
        \/ CreateRollbackDelZone(p)
        \/ CreateRollbackRemoveFile(p)
        \/ DeleteStart(p)
        \/ DeleteLock(p)
        \/ DeleteRemoveFromCatalog(p)
        \/ DeleteDelZone(p)
        \/ DeleteRemoveFile(p)
        \/ Return(p)

Spec == Init /\ [][Next]_vars

\* The zone lifecycle together with the RRset operations of the rrset manager.
NextOps ==
    \/ Next
    \/ \E p \in Procs :
        \/ UpsertStart(p)
        \/ UpsertLock(p)
        \/ UpsertSend(p)
        \/ RRsetDeleteStart(p)
        \/ RRsetDeleteLock(p)
        \/ RRsetDeleteSend(p)

SpecOps == Init /\ [][NextOps]_vars

\* ---- the rrset manager on a zone the server has

\* The zone the RRset operations work on, and the calls made on it.
ServedZoneInput == <<"A">>
ServedZone == NormalizeZone(ServedZoneInput).v

RRZoneInputs == {ServedZoneInput, <<"-">>}
RROwnerInputs == {<<"@">>, <<"b">>, <<"A", ".">>, <<"b", ".">>}
RRTypeInputsR == {"A", "CNAME", "cname", "NS", "ns"}
\* The allowlist of DefaultConfig, and one that has NS as well.
Allowlists == {AllowedRRtypes, AllowedRRtypes \cup {"NS"}}
RRTTLInputs == {MinTTL - 1, MinTTL, MinTTL + 1}
RRDataInputs ==
    {<<>>,
     << <<"192.0.2.1">>, <<"192.0.2.2">> >>,
     << <<"192.0.2.2">>, <<"192.0.2.2">> >>,
     << <<"b">> >>}

UpsertCallsR ==
    {UpsertValidate(allowed, z, o, t, ttl, rd) :
        allowed \in Allowlists, z \in RRZoneInputs, o \in RROwnerInputs,
        t \in RRTypeInputsR, ttl \in RRTTLInputs, rd \in RRDataInputs}

RRsetDeleteCallsR ==
    {DeleteValidate(allowed, z, o, t) :
        allowed \in Allowlists, z \in RRZoneInputs, o \in RROwnerInputs,
        t \in RRTypeInputsR}

GetCalls ==
    {GetValidate(z, o, t) :
        z \in RRZoneInputs, o \in RROwnerInputs, t \in RRTypeInputsR \cup {"x"}}

UpsertStartR(p) == ManagerStart(p, "upsert", "u_lock", UpsertCallsR)
RRsetDeleteStartR(p) == ManagerStart(p, "rrset_delete", "x_lock", RRsetDeleteCallsR)
GetStart(p) == ManagerStart(p, "get", "g_query", GetCalls)

\* The served zone is a catalog member, as a Create leaves it.
InitServed ==
    /\ pc = [p \in Procs |-> "idle"]
    /\ op = [p \in Procs |-> NoOp]
    /\ held = [p \in Procs |-> FALSE]
    /\ flock = [l \in LockPaths |-> {}]
    /\ file = [z \in Zones |-> z = ServedZone]
    /\ registered = [z \in Zones |-> z = ServedZone]
    /\ db = ApplyUpdate({}, BuildPTRUpdate(CatalogZone, ServedZone,
                                           SHA1WireLabel(ServedZone), CatalogTTL).ns)
    /\ nops = 0

NextRRset ==
    \E p \in Procs :
        \/ UpsertStartR(p)
        \/ UpsertLock(p)
        \/ UpsertSend(p)
        \/ RRsetDeleteStartR(p)
        \/ RRsetDeleteLock(p)
        \/ RRsetDeleteSend(p)
        \/ GetStart(p)
        \/ GetQuery(p)
        \/ Return(p)

SpecRRset == InitServed /\ [][NextRRset]_vars

\* ------------------------------------------------------------------ serial

\* A uint32 serial is written in base 100, <<q, r>> for 100 * q + r with r in
\* 0..99, so that YYYYMMDDNN is <<YYYYMMDD, NN>>. The largest uint32,
\* 4294967295, is <<42949672, 95>>.
MaxUint32 == <<42949672, 95>>

Less32(a, b) == a[1] < b[1] \/ (a[1] = b[1] /\ a[2] < b[2])

\* a + 1 in uint32 arithmetic.
Succ32(a) ==
    IF a = MaxUint32 THEN <<0, 0>>
    ELSE IF a[2] = 99 THEN <<a[1] + 1, 0>>
    ELSE <<a[1], a[2] + 1>>

\* uint32(now.Year()*1000000 + int(now.Month())*10000 + now.Day()*100)
todaySerial(now) == <<now.year * 10000 + now.month * 100 + now.day, 0>>

\* A BumpSerial that starts every call at today's first revision.
BumpSerial_alwaysToday(currentSerial, now) == todaySerial(now)

\* BumpSerial, with the time.Now() it reads.
BumpSerial(currentSerial, now) ==
    IF ~Less32(currentSerial, todaySerial(now))
    THEN Succ32(currentSerial)
    ELSE todaySerial(now)

\* ------------------------------------------------------------------ acme

AcmePrefix ==
    <<"_", "a", "c", "m", "e", "-", "c", "h", "a", "l", "l", "e", "n", "g", "e", ".">>

\* containsPrefix: the prefix compared without regard to letter case.
containsPrefix(s, prefix) ==
    /\ ~(Len(s) < Len(prefix))
    /\ ToLower(SubSeq(s, 1, Len(prefix))) = ToLower(prefix)

\* The owner Present and Cleanup go on with, from the normalized owner.
ChallengeOwner(owner, zoneFQDN) ==
    IF Len(owner) > 16 /\ ~containsPrefix(owner, AcmePrefix)
    THEN LET below == /\ Len(owner) > Len(zoneFQDN)
                      /\ SubSeq(owner, Len(owner) - Len(zoneFQDN) + 1, Len(owner)) = zoneFQDN
             cut == SubSeq(owner, 1, Len(owner) - Len(zoneFQDN))
             baseOwner == IF ~below THEN owner
                          ELSE IF cut[Len(cut)] = "." THEN SubSeq(cut, 1, Len(cut) - 1)
                          ELSE cut
         IN  AcmePrefix \o baseOwner \o <<".">> \o zoneFQDN
    ELSE owner

\* ACMEHandler.Present up to the lock of the Upsert it delegates to: its error,
\* or the Upsert the manager goes on with.
Present(zoneInput, fqdn, value, ttl) ==
    LET zoneFQDN == NormalizeZone(zoneInput)
        owner == NormalizeOwner(fqdn, zoneFQDN.v)
        upsert == UpsertValidate(AllowedRRtypes, zoneFQDN.v,
                                 ChallengeOwner(owner.v, zoneFQDN.v), "TXT",
                                 IF ttl = 0 THEN 60 ELSE ttl, <<value>>)
    IN  IF ~zoneFQDN.ok THEN [err |-> "invalid zone", zone |-> <<>>, args |-> NoOp.args]
        ELSE IF ~owner.ok THEN [err |-> "invalid FQDN", zone |-> <<>>, args |-> NoOp.args]
        ELSE IF upsert.err # ""
        THEN [upsert EXCEPT !.err = "failed to create ACME challenge record"]
        ELSE upsert

\* ACMEHandler.Cleanup up to the lock of the Delete it delegates to.
Cleanup(zoneInput, fqdn, value) ==
    LET zoneFQDN == NormalizeZone(zoneInput)
        owner == NormalizeOwner(fqdn, zoneFQDN.v)
        delete == DeleteValidate(AllowedRRtypes, zoneFQDN.v,
                                 ChallengeOwner(owner.v, zoneFQDN.v), "TXT")
    IN  IF ~zoneFQDN.ok THEN [err |-> "invalid zone", zone |-> <<>>, args |-> NoOp.args]
        ELSE IF ~owner.ok THEN [err |-> "invalid FQDN", zone |-> <<>>, args |-> NoOp.args]
        ELSE IF delete.err # ""
        THEN [delete EXCEPT !.err = "failed to remove ACME challenge record"]
        ELSE delete

\* ------------------------------------------------------------------ calls

\* The functions of the packages, called one at a time: the arguments and the
\* result of the call are kept until the caller is done with them.

\* The longest argument, apart from the long names below.
MaxNameLen == 3

StringsUpTo(chars, n) == UNION {[1..k -> chars] : k \in 0..n}

Rep(c, n) == [i \in 1..n |-> c]

\* Arguments of NormalizeZone: the short strings, a label of maxLabelLength
\* characters and one that is a character longer.
ZoneStrings ==
    StringsUpTo({"a", "A", "0", "-", ".", " "}, MaxNameLen)
        \cup {Rep("A", maxLabelLength), Rep("a", maxLabelLength + 1)}

\* The zones NormalizeZone makes of them.
CanonicalZones == {n.v : n \in {m \in {NormalizeZone(z) : z \in ZoneStrings} : m.ok}}

OwnerStrings == StringsUpTo({"a", "b", "A", ".", "@", " "}, MaxNameLen)
OwnerZones == {<<"a", ".">>, <<"b", ".", "a", ".">>}

Dates == {[year |-> 2026, month |-> 11, day |-> 2], [year |-> 1999, month |-> 12, day |-> 31]}

\* Serials around today's, and at both ends of uint32.
Serials(now) ==
    LET t == todaySerial(now)
    IN  {<<0, 0>>, <<t[1] - 1, 99>>, t, <<t[1], 1>>, <<t[1], 99>>, <<t[1] + 1, 0>>,
         <<MaxUint32[1], MaxUint32[2] - 1>>, MaxUint32}

\* A zone whose name is longer than the prefix of the challenge label.
LongZoneInput == Rep("a", 16)

AcmeZoneInputs == {<<"A">>, <<"-">>, LongZoneInput}
AcmeFqdns ==
    {<<"@">>, <<"b">>, <<"A", ".">>, <<"b", ".", "a", ".">>, <<"b", ".">>,
     Rep("b", 14), Rep("a", 16) \o <<".">>, AcmePrefix \o <<"b">>,
     AcmePrefix \o Rep("B", 14)}
AcmeTTLs == {0, MinTTL}

Caller == "p1"

\* The caller applies fn to args and has its result.
Call(fn, args, out) ==
    /\ pc[Caller] = "idle"
    /\ pc' = [pc EXCEPT ![Caller] = "done"]
    /\ op' = [op EXCEPT ![Caller] = [NoOp EXCEPT !.kind = fn, !.args = args, !.got = out]]
    /\ UNCHANGED <<held, flock, file, registered, db, nops>>

\* The caller is done with the result.
CallReturn ==
    /\ pc[Caller] = "done"
    /\ pc' = [pc EXCEPT ![Caller] = "idle"]
    /\ op' = [op EXCEPT ![Caller] = NoOp]
    /\ UNCHANGED <<held, flock, file, registered, db, nops>>

CallNormalizeZone ==
    \E input \in ZoneStrings :
        Call("NormalizeZone", [input |-> input], NormalizeZone(input))

CallNormalizeOwner ==
    \E input \in OwnerStrings, zone \in OwnerZones :
        Call("NormalizeOwner", [input |-> input, zone |-> zone], NormalizeOwner(input, zone))

CallSHA1WireLabel ==
    \E zone \in CanonicalZones, other \in CanonicalZones :
        Call("SHA1WireLabel", [zone |-> zone, other |-> other],
             [label |-> SHA1WireLabel(zone), otherLabel |-> SHA1WireLabel(other)])

CallBumpSerial ==
    \E now \in Dates : \E currentSerial \in Serials(now) :
        Call("BumpSerial", [currentSerial |-> currentSerial, now |-> now],
             BumpSerial(currentSerial, now))

\* Upsert up to the lock, and the update it goes on to send.
CallUpsert ==
    \E allowed \in Allowlists, z \in RRZoneInputs, o \in RROwnerInputs,
       t \in RRTypeInputsR, ttl \in RRTTLInputs, rd \in RRDataInputs :
        LET v == UpsertValidate(allowed, z, o, t, ttl, rd)
            a == v.args
            rrs == [i \in 1..Len(a.rdata) |-> BuildRR(a.owner, a.type, a.ttl, a.rdata[i])]
        IN  Call("Upsert",
                 [allowed |-> allowed, zone |-> z, owner |-> o, type |-> t,
                  ttl |-> ttl, rdata |-> rd],
                 [err |-> v.err,
                  ns |-> IF v.err = "" THEN AddRRset(v.zone, rrs).ns ELSE <<>>])

\* Delete up to the lock, and the update it goes on to send.
CallRRsetDelete ==
    \E allowed \in Allowlists, z \in RRZoneInputs, o \in RROwnerInputs,
       t \in RRTypeInputsR :
        LET v == DeleteValidate(allowed, z, o, t)
        IN  Call("Delete",
                 [allowed |-> allowed, zone |-> z, owner |-> o, type |-> t],
                 [err |-> v.err,
                  ns |-> IF v.err = ""
                         THEN DeleteRRset(v.zone, v.args.owner, StringToType(v.args.type)).ns
                         ELSE <<>>])

CallPresent ==
    \E z \in AcmeZoneInputs, fqdn \in AcmeFqdns, ttl \in AcmeTTLs :
        Call("Present", [zone |-> z, fqdn |-> fqdn, ttl |-> ttl],
             Present(z, fqdn, <<"v">>, ttl))

CallCleanup ==
    \E z \in AcmeZoneInputs, fqdn \in AcmeFqdns :
        Call("Cleanup", [zone |-> z, fqdn |-> fqdn], Cleanup(z, fqdn, <<"v">>))

\* ------------------------------------------------------------------ commands

\* The logger has an audit file when a path is configured and the file opens;
\* a file that does not open is passed over in silence.
NewLogger(auditPath, opened) == [auditFile |-> auditPath # "" /\ opened]

\* WriteAudit appends one object for the result to the audit file of the
\* logger, and nothing when the logger has none. The write is taken to succeed.
WriteAudit(l, log, result) ==
    IF ~l.auditFile THEN log ELSE Append(log, result)

NewResult(operation) == [op |-> operation, ok |-> TRUE, code |-> ExitSuccess]
NewErrorResult(operation, code) == [op |-> operation, ok |-> FALSE, code |-> code]

\* The logger loadConfig makes: the audit file of the configuration.
loadConfig(auditPath, opened) == NewLogger(auditPath, opened)

\* What a command has done when RunE returns: the operations of the packages
\* it has called, the objects it has appended to the audit log and whether it
\* has reported success.
Ran(calls, log, ok) == [calls |-> calls, audit |-> log, ok |-> ok]

\* A command that calls one operation of a package and reports what it returns:
\* the error result on an error, else the success result.
runOperation(operation, called, l, err) ==
    IF err # ""
    THEN Ran({called}, WriteAudit(l, <<>>, NewErrorResult(operation, ExitRuntimeFailure)), FALSE)
    ELSE Ran({called}, WriteAudit(l, <<>>, NewResult(operation)), TRUE)

\* A command that is a placeholder: it reports success and calls nothing.
runPlaceholder(operation, l) ==
    Ran({}, WriteAudit(l, <<>>, NewResult(operation)), TRUE)

doctorCmd(l) == runPlaceholder("doctor", l)

\* version prints the version: it loads no configuration and has no logger.
versionCmd == Ran({}, <<>>, TRUE)

zoneCreateCmd(l, err) == runOperation("zone_create", "CreateZone", l, err)
zoneDeleteCmd(l, err) == runOperation("zone_delete", "DeleteZone", l, err)
zoneStatusCmd(l, err) == runOperation("zone_status", "ZoneStatus", l, err)
zoneListCmd(l) == runPlaceholder("zone_list", l)

\* The Upsert of rrset upsert is a function of the command itself that
\* returns the error "not yet implemented" whatever its arguments are.
rrsetUpsertCmd(l) ==
    Ran({}, WriteAudit(l, <<>>, NewErrorResult("rrset_upsert", ExitRuntimeFailure)), FALSE)

rrsetDeleteCmd(l) == runPlaceholder("rrset_delete", l)
rrsetGetCmd(l) == runPlaceholder("rrset_get", l)

\* acme present writes the audit object of an error only: on success it prints
\* the record and returns.
acmePresentCmd(l, err) ==
    IF err # ""
    THEN Ran({"Present"}, WriteAudit(l, <<>>, NewErrorResult("acme_present", ExitRuntimeFailure)), FALSE)
    ELSE Ran({"Present"}, <<>>, TRUE)

acmeCleanupCmd(l, err) == runOperation("acme_cleanup", "Cleanup", l, err)

\* The wrapper mode makes its own logger, without an audit path.
sshWrapCmd == runPlaceholder("ssh_wrap", NewLogger("", TRUE))

Verbs ==
    {"doctor", "version", "zone_create", "zone_delete", "zone_status", "zone_list",
     "rrset_upsert", "rrset_delete", "rrset_get", "acme_present", "acme_cleanup",
     "ssh_wrap"}

\* The command of a verb, run with the configured audit path; err is the error
\* of the operation it calls, if it calls one.
RunE(verb, auditPath, opened, err) ==
    LET l == loadConfig(auditPath, opened)
    IN  CASE verb = "doctor" -> doctorCmd(l)
          [] verb = "version" -> versionCmd
          [] verb = "zone_create" -> zoneCreateCmd(l, err)
          [] verb = "zone_delete" -> zoneDeleteCmd(l, err)
          [] verb = "zone_status" -> zoneStatusCmd(l, err)
          [] verb = "zone_list" -> zoneListCmd(l)
          [] verb = "rrset_upsert" -> rrsetUpsertCmd(l)
          [] verb = "rrset_delete" -> rrsetDeleteCmd(l)
          [] verb = "rrset_get" -> rrsetGetCmd(l)
          [] verb = "acme_present" -> acmePresentCmd(l, err)
          [] verb = "acme_cleanup" -> acmeCleanupCmd(l, err)
          [] verb = "ssh_wrap" -> sshWrapCmd

AuditPaths == {"", "audit.jsonl"}
OperationErrors == {"", "failed"}

CallRunE ==
    \E verb \in Verbs, auditPath \in AuditPaths, opened \in BOOLEAN,
       err \in OperationErrors :
        Call("RunE", [verb |-> verb, auditPath |-> auditPath, opened |-> opened,
                      err |-> err],
             RunE(verb, auditPath, opened, err))

\* ------------------------------------------------------------------ ssh wrap

\* A command line is a sequence of words and blanks; a word is a sequence of
\* its parts, each leading hyphen a part of its own: --ttl is <<"-", "-", "ttl">>,
\* and a blank is <<" ">>.
allowedSubcommands == {<<"doctor">>, <<"version">>, <<"zone">>, <<"rrset">>, <<"acme">>}

\* The flags allowed for a subcommand that has a table of them.
allowedFlags ==
    [s \in {<<"zone">>, <<"rrset">>, <<"acme">>} |->
        CASE s = <<"zone">> -> {<<"create">>, <<"delete">>, <<"status">>, <<"list">>, <<"limit">>}
          [] s = <<"rrset">> -> {<<"upsert">>, <<"delete">>, <<"get">>, <<"ttl">>}
          [] s = <<"acme">> -> {<<"present">>, <<"cleanup">>, <<"ttl">>}]

\* strings.Fields: the words between the blanks.
Fields(cmd) == SelectSeq(cmd, LAMBDA w : w # <<" ">>)

\* strings.TrimPrefix
TrimPrefix(s, prefix) ==
    IF HasPrefix(s, prefix) THEN SubSeq(s, Len(prefix) + 1, Len(s)) ELSE s

\* The error of WrapHandler.Handle for SSH_ORIGINAL_COMMAND, "" when it lets
\* the command through.
Handle(originalCmd) ==
    LET parts == Fields(originalCmd)
        subcommand == parts[1]
        flagName(part) == TrimPrefix(TrimPrefix(part, <<"-">>), <<"-">>)
        refused(part) ==
            /\ HasPrefix(part, <<"-">>)
            /\ subcommand \in DOMAIN allowedFlags
            /\ flagName(part) \notin allowedFlags[subcommand]
    IN  IF originalCmd = <<>> THEN "no SSH_ORIGINAL_COMMAND found"
        ELSE IF Len(parts) = 0 THEN "empty command"
        ELSE IF subcommand \notin allowedSubcommands THEN "subcommand is not allowed"
        ELSE IF \E i \in 2..Len(parts) : refused(parts[i]) THEN "flag is not allowed"
        ELSE ""

\* The error of ValidateCommand for the words of a command.
ValidateCommand(parts) ==
    IF Len(parts) = 0 THEN "empty command"
    ELSE IF parts[1] \notin allowedSubcommands THEN "subcommand is not allowed"
    ELSE ""

\* The most words after the subcommand in a command line.
MaxArgs == 2

Subcommands == allowedSubcommands \cup {<<"bash">>, <<"config">>}
ArgWords ==
    {<<"create">>, <<"-", "-", "limit">>, <<"-", "ttl">>, <<"-", "-", "config">>,
     <<"-", "c">>, <<"-">>, <<"-", "-", "-", "ttl">>}
CommandLines ==
    {<<>>, <<<<" ">>>>}
        \cup UNION {{<<s>> \o a : a \in [1..k -> ArgWords]} : s \in Subcommands, k \in 0..MaxArgs}
        \cup {<<<<" ">>, s, <<" ">>, a>> : s \in Subcommands, a \in ArgWords}

CallHandle ==
    \E originalCmd \in CommandLines :
        Call("Handle", [originalCmd |-> originalCmd],
             [err |-> Handle(originalCmd),
              validate |-> ValidateCommand(Fields(originalCmd))])

NextCalls ==
    \/ CallNormalizeZone
    \/ CallNormalizeOwner
    \/ CallSHA1WireLabel
    \/ CallBumpSerial
    \/ CallUpsert
    \/ CallRRsetDelete
    \/ CallPresent
    \/ CallCleanup
    \/ CallRunE
    \/ CallHandle
    \/ CallReturn

SpecCalls == Init /\ [][NextCalls]_vars

\* The call of fn is over and its result is at hand.
Finished(fn) == pc[Caller] = "done" /\ op[Caller].kind = fn

\* ------------------------------------------------------------------ one caller

\* The operations of the zone and rrset packages made one after the other by
\* one caller, on a server that has the served zone.
NextSerial ==
    LET p == Caller
    IN  \/ CreateStart(p)
        \/ CreateLock(p)
        \/ CreateEnsureDirs(p)
        \/ CreateZoneStatus(p)
        \/ CreateWriteZoneFile(p)
        \/ CreateAddZone(p)
        \/ CreateAddZoneFailed(p)
        \/ CreateEnsureExisting(p)
        \/ CreateEnsure(p)
        \/ CreateRollbackDelZone(p)
        \/ CreateRollbackRemoveFile(p)
        \/ DeleteStart(p)
        \/ DeleteLock(p)
        \/ DeleteRemoveFromCatalog(p)
        \/ DeleteDelZone(p)
        \/ DeleteRemoveFile(p)
        \/ UpsertStartR(p)
        \/ UpsertLock(p)
        \/ UpsertSend(p)
        \/ RRsetDeleteStartR(p)
        \/ RRsetDeleteLock(p)
        \/ RRsetDeleteSend(p)
        \/ GetStart(p)
        \/ GetQuery(p)
        \/ Return(p)

SpecSerial == InitServed /\ [][NextSerial]_vars

\* ------------------------------------------------------------------ lock handles

\* The handles of the lock package, used on their own: lock.New(path) or
\* lock.NewReadOnly(path), then Acquire and Release in any order. A handle has
\* its path, its mode and its file: "nil", "open", or "closed" when the field
\* still names a descriptor that is closed.
NewLock(path, readOnly) == [path |-> path, readOnly |-> readOnly, file |-> "nil"]

\* flock(how|LOCK_NB) on a file description opened for l fails when another
\* description holds the lock, unless both ask for LOCK_SH.
FlockRefused(l) == \E q \in flock[l.path] : ~l.readOnly \/ ~op[q].args.readOnly

\* The error of Lock.Acquire, "" when it takes the lock.
AcquireError(p, l, dirs, open) ==
    IF held[p] THEN "lock already held"
    ELSE IF dirs = "fail" THEN "failed to create lock directory"
    ELSE IF open = "fail" THEN "failed to open lock file"
    ELSE IF FlockRefused(l) THEN "failed to acquire lock"
    ELSE ""

\* An Acquire that leaves the file it opened open when flock refuses.
AcquireFile_leaks(l, err) ==
    IF err \in {"", "failed to acquire lock"} THEN "open" ELSE l.file

\* The file of the handle after Acquire: the one it opened is kept when the
\* lock is taken and closed when flock refuses.
AcquireFile(l, err) == IF err = "" THEN "open" ELSE l.file

\* The error of Lock.Release, "" when the handle holds nothing afterwards.
\* LOCK_UN fails on a descriptor that is closed.
ReleaseError(p, l, unlock, close) ==
    IF ~held[p] THEN ""
    ELSE IF unlock = "fail" \/ l.file = "closed" THEN "failed to release lock"
    ELSE IF close = "fail" THEN "failed to close lock file"
    ELSE ""

\* The caller has the result of a call on its handle.
Returned(p, l, call, err) ==
    /\ op' = [op EXCEPT ![p].args = l, ![p].got = [call |-> call, err |-> err]]
    /\ Goto(p, "called")
    /\ UNCHANGED <<file, registered, db, nops>>

LockNew(p) ==
    /\ pc[p] = "idle"
    /\ \E path \in LockPaths, readOnly \in BOOLEAN :
           op' = [op EXCEPT ![p] = [NoOp EXCEPT !.kind = "lock",
                                                !.args = NewLock(path, readOnly)]]
    /\ Goto(p, "handle")
    /\ UNCHANGED <<held, flock, file, registered, db, nops>>

LockAcquire(p) ==
    /\ pc[p] = "handle"
    /\ \E dirs \in FsCalls, open \in FsCalls :
        LET l == op[p].args
            err == AcquireError(p, l, dirs, open)
        IN  /\ IF err = "" THEN Acquire(p, l.path) ELSE UNCHANGED <<held, flock>>
            /\ Returned(p, [l EXCEPT !.file = AcquireFile(l, err)], "Acquire", err)

\* A descriptor that fails to close is closed all the same, and the lock of its
\* file description goes with it, while the handle goes on holding.
LockRelease(p) ==
    /\ pc[p] = "handle"
    /\ \E unlock \in FsCalls, close \in FsCalls :
        LET l == op[p].args
            err == ReleaseError(p, l, unlock, close)
        IN  IF ~held[p] \/ err = "failed to release lock"
            THEN UNCHANGED <<held, flock>> /\ Returned(p, l, "Release", err)
            ELSE IF err = "failed to close lock file"
            THEN /\ flock' = [flock EXCEPT ![l.path] = @ \ {p}]
                 /\ UNCHANGED held
                 /\ Returned(p, [l EXCEPT !.file = "closed"], "Release", err)
            ELSE /\ Release(p, l.path)
                 /\ Returned(p, [l EXCEPT !.file = "nil"], "Release", err)

\* The caller goes on to its next call.
LockReturn(p) ==
    /\ pc[p] = "called"
    /\ op' = [op EXCEPT ![p].got = NoOp.got]
    /\ Goto(p, "handle")
    /\ UNCHANGED <<held, flock, file, registered, db, nops>>

NextLock ==
    \E p \in Procs :
        \/ LockNew(p)
        \/ LockAcquire(p)
        \/ LockRelease(p)
        \/ LockReturn(p)

SpecLock == Init /\ [][NextLock]_vars

\* ------------------------------------------------------------------ zone states

NONEXISTENT(f, r, m) == ~f /\ ~r /\ ~m
MEMBER(f, r, m) == f /\ r /\ m
Terminal(f, r, m) == NONEXISTENT(f, r, m) \/ MEMBER(f, r, m)

ZoneTerminal(z) == Terminal(file[z], registered[z], InCatalog(db, z))

\* The operation of p has run all its steps and is about to return, lock in hand.
Returning(p, kind) == pc[p] = "ret" /\ op[p].kind = kind /\ held[p]

\* ------------------------------------------------------------------ C1

FreshChanges == <<"zone_file_created", "zone_added", "catalog_updated">>
ExistingChanges == <<"zone_already_exists", "catalog_updated">>

C4_AlreadyExistsRecovered ==
    \A p \in Procs :
        (/\ Returning(p, "create")
         /\ \/ Has(op[p].changes, "zone_already_exists")
            \/ "addzone_already_exists" \in op[p].fx)
        => /\ "ensure" \in op[p].fx
           /\ op[p].err # "" => op[p].bad \cap {"ensure", "ensure_lost"} # {}

\* ------------------------------------------------------------------ C5

\* The result of a Create that lost the race for the lock.
Contended(r) == ~r.ok /\ r.message = "failed to acquire zone lock"

\* C5: the only two operations ever started are Creates of one zone and no call
\* of theirs has gone wrong. Then AddZone is called by at most one of them, and
\* once both have returned exactly one reports zone_added, the other one either
\* failed on the contended lock or reports zone_already_exists, catalog_updated.
C5_OneZoneAdded ==
    \A p, q \in Procs :
        (/\ p # q /\ nops = 2
         /\ op[p].kind = "create" /\ op[q].kind = "create"
         /\ op[p].zone \in Zones /\ op[p].zone = op[q].zone
         /\ op[p].bad = {} /\ op[q].bad = {})
        => /\ ~("addzone" \in op[p].fx /\ "addzone" \in op[q].fx)
           /\ (pc[p] = "done" /\ pc[q] = "done") =>
                \E w \in {p, q} : \E l \in {p, q} \ {w} :
                    /\ op[w].res.ok /\ op[w].res.changes = FreshChanges
                    /\ ~Has(op[l].res.changes, "zone_added")
                    /\ \/ Contended(op[l].res)
                       \/ op[l].res.ok /\ op[l].res.changes = ExistingChanges

\* Two Creates of one zone have returned, one of them on the contended lock.
C5_Witness ==
    \E p, q \in Procs :
        /\ p # q /\ nops = 2
        /\ pc[p] = "done" /\ pc[q] = "done"
        /\ op[p].kind = "create" /\ op[q].kind = "create"
        /\ op[p].zone \in Zones /\ op[p].zone = op[q].zone
        /\ op[p].bad = {} /\ op[q].bad = {}
        /\ Has(op[p].res.changes, "zone_added")
        /\ Contended(op[q].res)

\* ------------------------------------------------------------------ C6

LockPCs == {"c_lock", "d_lock", "u_lock", "x_lock"}

\* C6: the flock of a lock file is held by at most one handle, and by exactly
\* the operation whose Lock says so; an operation about to take the lock of its
\* zone gets it whenever no operation on that same zone holds one, whatever
\* locks of other zones are held.
C6_OneHolderPerZone ==
    /\ \A z \in Zones :
         /\ Cardinality(flock[LockFilePath(z)]) <= 1
         /\ flock[LockFilePath(z)] = {p \in Procs : held[p] /\ op[p].zone = z}
    /\ \A p \in Procs :
         (/\ pc[p] \in LockPCs
          /\ ~\E q \in Procs : held[q] /\ op[q].zone = op[p].zone)
         => AcquireOK(p, LockFilePath(op[p].zone))

\* Two operations hold the locks of two different zones at once.
C6_Witness ==
    \E p, q \in Procs :
        /\ held[p] /\ held[q]
        /\ op[p].zone # op[q].zone
        /\ flock[LockFilePath(op[p].zone)] = {p}
        /\ flock[LockFilePath(op[q].zone)] = {q}

\* ------------------------------------------------------------------ C7

\* Where the next step of an operation calls out to change its zone.
MutatingPCs ==
    {"c_write", "c_addzone", "c_addzone_failed", "c_ensure_existing", "c_ensure",
     "c_rollback_delzone", "c_rollback_rmfile",
     "d_catalog", "d_delzone", "d_rmfile", "u_send", "x_send"}

HoldsLockOf(p, z) == held[p] /\ op[p].zone = z /\ flock[LockFilePath(z)] = {p}

\* The name of the catalog PTR of each zone.
MemberOwners == [z \in Zones |-> Fqdn(CatalogOwner(CatalogZone, SHA1WireLabel(z)))]

MemberOwner(zone) == MemberOwners[zone]

\* Everything the operations can change that belongs to a zone.
ZoneResources(z) ==
    <<file[z], registered[z],
      {rr \in db : ServedBy(rr, z) \/ rr.name = MemberOwner(z)}>>

\* No operation is at a mutating step without the exclusive lock of its zone,
\* and no two operations are at a mutating step for one zone.
MutatorsLocked ==
    /\ \A p \in Procs : pc[p] \in MutatingPCs => HoldsLockOf(p, op[p].zone)
    /\ \A p, q \in Procs :
         (p # q /\ pc[p] \in MutatingPCs /\ pc[q] \in MutatingPCs)
         => op[p].zone # op[q].zone

\* C7: every step leads to a state where an operation whose next step is a
\* mutating call on its zone holds the exclusive lock of that zone, alone at
\* such a step for the zone; and every step that changes the file, the
\* registration, the records or the catalog PTR of a zone is a step of the
\* operation holding that zone's lock.
C7_MutationsUnderLock ==
    [][/\ MutatorsLocked'
       /\ <<file, registered, db>>' # <<file, registered, db>> =>
            \A z \in Zones :
                ZoneResources(z)' # ZoneResources(z)
                => \E p \in Procs : /\ HoldsLockOf(p, z)
                                    /\ pc[p] \in MutatingPCs
                                    /\ pc'[p] # pc[p]]_vars

\* An Upsert is about to send its update, lock in hand, while a Delete of the
\* same zone has failed on the contended lock.
C7_Witness ==
    \E p, q \in Procs :
        /\ pc[p] = "u_send" /\ HoldsLockOf(p, op[p].zone)
        /\ registered[op[p].zone]
        /\ pc[q] = "ret" /\ op[q].kind = "delete" /\ op[q].zone = op[p].zone
        /\ op[q].err = "failed to acquire zone lock"

\* ------------------------------------------------------------------ C8

\* C8: Delete calls DelZone only after the catalog removal succeeded. A Delete
\* that returns the catalog error has called neither DelZone nor RemoveZoneFile
\* and leaves registry and file as they were; a Delete that returns the DelZone
\* error has not recorded zone_deleted and has not called RemoveZoneFile, and
\* unless the server acted on a DelZone whose answer was lost, registry and file
\* are as they were.
C8_DeleteOrder ==
    \A p \in Procs :
        op[p].kind = "delete" /\ held[p] =>
            LET o == op[p]
                z == op[p].zone
            IN  /\ "delzone" \in o.fx =>
                     /\ "remove" \in o.fx
                     /\ o.bad \cap {"remove", "remove_lost"} = {}
                     /\ o.changes[1] = "catalog_updated"
                /\ "rmfile" \in o.fx =>
                     /\ "delzone" \in o.fx
                     /\ o.bad \cap {"delzone", "delzone_lost"} = {}
                     /\ SubSeq(o.changes, 1, 2) = <<"catalog_updated", "zone_deleted">>
                /\ (pc[p] = "ret" /\ o.err = "failed to remove from catalog") =>
                     /\ o.fx \cap {"delzone", "rmfile"} = {}
                     /\ registered[z] = o.pre.reg
                     /\ file[z] = o.pre.file
                /\ (pc[p] = "ret" /\ o.err = "failed to delete zone via RNDC") =>
                     /\ ~Has(o.changes, "zone_deleted")
                     /\ "rmfile" \notin o.fx
                     /\ "delzone_lost" \notin o.bad =>
                          registered[z] = o.pre.reg /\ file[z] = o.pre.file

\* A Delete of a MEMBER zone returns the catalog error and the zone is MEMBER still.
C8_Witness ==
    \E p \in Procs :
        /\ Returning(p, "delete")
        /\ op[p].err = "failed to remove from catalog"
        /\ op[p].bad = {"remove"}
        /\ MEMBER(op[p].pre.file, op[p].pre.reg, op[p].pre.mem)
        /\ MEMBER(file[op[p].zone], registered[op[p].zone], InCatalog(db, op[p].zone))

\* ------------------------------------------------------------------ C9

\* C9: a Delete whose zone-file removal fails still succeeds and reports
\* zone_file_cleanup_failed among the warnings of its result, not among its
\* changes; a Delete whose removal succeeds reports the change zone_file_removed.
C9_CleanupFailureIsWarning ==
    \A p \in Procs :
        (Returning(p, "delete") /\ "rmfile" \in op[p].fx) =>
            LET r == CommandResult(op[p])
            IN  /\ r.ok
                /\ "rmfile" \in op[p].bad =>
                     /\ Has(r.warnings, "zone_file_cleanup_failed")
                     /\ ~Has(r.changes, "zone_file_cleanup_failed")
                /\ "rmfile" \notin op[p].bad => Has(r.changes, "zone_file_removed")

\* ------------------------------------------------------------------ C10

\* The catalog PTR records of a zone among the records of the server.
CatalogPTRs(rrs, zone) ==
    {rr \in rrs : rr.name = MemberOwner(zone) /\ rr.type = TypePTR}

MemberPTR(zone) ==
    [name |-> MemberOwner(zone), type |-> TypePTR, ttl |-> CatalogTTL,
     rdata |-> Fqdn(zone)]

\* The updates ensureCatalogMembership and removeFromCatalog build for each zone.
EnsureMsg ==
    [z \in Zones |-> BuildPTRUpdate(CatalogZone, z, SHA1WireLabel(z), CatalogTTL)]

RemoveMsg == [z \in Zones |-> BuildPTRDelete(CatalogZone, SHA1WireLabel(z))]

\* The server applying them.
Ensure(rrs, zone) == ApplyUpdate(rrs, EnsureMsg[zone].ns)

Remove(rrs, zone) == ApplyUpdate(rrs, RemoveMsg[zone].ns)

\* C10: on the records the server holds, Ensure applied twice gives what Ensure
\* applied once gives, with exactly the one PTR to the zone at the member label;
\* Remove applied twice after Ensure gives what Remove applied once gives, with
\* no PTR at the member label. In the operations: a Create that recorded
\* catalog_updated leaves exactly that PTR, and a Delete past its catalog step
\* leaves none, whether or not the membership was there before.
C10_CatalogIdempotent ==
    \A z \in Zones :
        LET e1 == Ensure(db, z)
            r1 == Remove(e1, z)
        IN  /\ Ensure(e1, z) = e1
            /\ CatalogPTRs(e1, z) = {MemberPTR(z)}
            /\ Remove(r1, z) = r1
            /\ CatalogPTRs(r1, z) = {}
            /\ \A p \in Procs :
                 /\ (/\ Returning(p, "create") /\ op[p].zone = z
                     /\ Has(op[p].changes, "catalog_updated"))
                    => CatalogPTRs(db, z) = {MemberPTR(z)} /\ Ensure(db, z) = db
                 /\ (pc[p] = "d_delzone" /\ op[p].zone = z)
                    => CatalogPTRs(db, z) = {} /\ Remove(db, z) = db

\* A second Delete of a zone has passed its catalog step, the membership being
\* gone already, after the Delete of the other process succeeded.
C10_Witness ==
    \E p, q \in Procs :
        /\ p # q
        /\ pc[p] = "d_delzone" /\ ~op[p].pre.mem
        /\ Has(op[p].changes, "catalog_updated")
        /\ pc[q] = "done" /\ op[q].kind = "delete" /\ op[q].zone = op[p].zone
        /\ op[q].res.ok /\ Has(op[q].res.changes, "catalog_updated")

\* ------------------------------------------------------------------ C11

\* The values of a sequence with their multiplicities.
BagOfSeq(q) ==
    [v \in {q[i] : i \in 1..Len(q)} |-> Cardinality({i \in 1..Len(q) : q[i] = v})]

\* C11: when an Upsert returns success, every result Get can give for its owner
\* and type is found, has the TTL of the Upsert and has the RDATA of the Upsert
\* as a multiset; no record of the RRset that was there before survives unless
\* the Upsert carries it, and the records at other owners or of other types are
\* the ones that were there before.
C11_UpsertReplaces ==
    \A p \in Procs :
        (pc[p] = "ret" /\ op[p].kind = "upsert" /\ op[p].err = "" /\ held[p]) =>
            LET a == op[p].args
                name == Fqdn(a.owner)
                type == StringToType(a.type)
                mine == {rr \in db : ServedBy(rr, op[p].zone)}
                built == {BuildRR(a.owner, a.type, a.ttl, a.rdata[i]) : i \in 1..Len(a.rdata)}
            IN  /\ \A r \in GetResults(db, a.owner, type) :
                     /\ r.found
                     /\ r.ttl = a.ttl
                     /\ BagOfSeq(r.rdata) = BagOfSeq(a.rdata)
                /\ RRsetAt(mine, name, type) \cap op[p].pre.rrs \subseteq built
                /\ mine \ RRsetAt(mine, name, type)
                     = op[p].pre.rrs \ RRsetAt(op[p].pre.rrs, name, type)

\* ------------------------------------------------------------------ C12

\* The errors of the steps before the lock: normalization, TTL range, type
\* allowlist, RDATA validation and policy.
ValidationErrors == {c.err : c \in UpsertCallsR \cup RRsetDeleteCallsR} \ {""}

\* The Upsert or RRset Delete of p has returned a validation error.
Rejected(p) ==
    /\ op[p].kind \in {"upsert", "rrset_delete"}
    /\ op[p].err \in ValidationErrors

\* C12: an Upsert or RRset Delete that fails validation returns the error at
\* once: the step that rejects it changes neither the locks nor the records of
\* the server nor the zone files, and the rejected operation holds no lock and
\* has issued no call.
C12_RejectionHasNoEffect ==
    [][\A p \in Procs :
          Rejected(p)' =>
              /\ pc'[p] = "ret" /\ ~held'[p] /\ op'[p].fx = {}
              /\ pc[p] # "ret" => UNCHANGED <<held, flock, db, file, registered>>]_vars

\* An Upsert is rejected while the other process holds the lock of the zone and
\* the server has a record that an Upsert put there.
C12_Witness ==
    \E p, q \in Procs :
        /\ pc[p] = "ret" /\ Rejected(p) /\ op[p].kind = "upsert"
        /\ held[q] /\ flock[LockFilePath(ServedZone)] = {q}
        /\ \E rr \in db : ServedBy(rr, ServedZone)

\* ------------------------------------------------------------------ C15

\* The exit code the outcome of a zone command calls for: success, a zone name
\* that fails validation, lock contention, and the runtime failures.
ExitOf(message) ==
    CASE message = "" -> ExitSuccess
      [] message = "invalid zone name" -> ExitValidationError
      [] message = "failed to acquire zone lock" -> ExitConflictUnsafe
      [] OTHER -> ExitRuntimeFailure

\* C15: a zone command that has ended has the exit code of its outcome, and the
\* code in the error object of its result is that exit code.
C15_ExitCodeOfOutcome ==
    \A p \in Procs :
        (pc[p] = "done" /\ op[p].kind \in {"create", "delete"}) =>
            /\ op[p].res.exit = ExitOf(op[p].res.message)
            /\ ~op[p].res.ok => op[p].res.code = op[p].res.exit

\* ------------------------------------------------------------------ C13

ApexCNAMEMessage == "policy violation: CNAME at zone apex is not allowed"

\* C13: an Upsert of type CNAME, in any letter case, whose owner normalizes to
\* the apex and whose TTL and RDATA are valid is rejected with the message of
\* the apex CNAME ban; no Upsert goes on to insert a CNAME record at the apex;
\* and the ban rejects neither a CNAME below the apex nor another type at the
\* apex.
C13_ApexCNAMERejected ==
    Finished("Upsert") =>
        LET a == op[Caller].args
            out == op[Caller].got
            zone == NormalizeZone(a.zone)
            owner == NormalizeOwner(a.owner, zone.v)
            atApex == owner.v = zone.v
            isCNAME == EqualFold(a.type, "CNAME")
        IN  (zone.ok /\ owner.ok) =>
                /\ (/\ isCNAME /\ atApex
                    /\ ValidateTTL(a.ttl)
                    /\ ValidateRDATA(a.allowed, "CNAME", a.rdata))
                   => out.err = ApexCNAMEMessage
                /\ \A i \in 1..Len(out.ns) :
                     out.ns[i].kind = "insert" =>
                         ~(out.ns[i].rr.type = TypeCNAME /\ out.ns[i].rr.name = zone.v)
                /\ ~(isCNAME /\ atApex) => out.err # ApexCNAMEMessage

\* ------------------------------------------------------------------ C14

\* C14: an Upsert or an RRset Delete of type NS, in any letter case, at the apex
\* or below it, with NS on the allowlist or not, returns an error and sends
\* nothing; and no Upsert or Delete goes on to send an update that names type NS.
C14_NSNeverUpdated ==
    (Finished("Upsert") \/ Finished("Delete")) =>
        LET a == op[Caller].args
            out == op[Caller].got
        IN  /\ EqualFold(a.type, "NS") => (out.err # "" /\ out.ns = <<>>)
            /\ \A i \in 1..Len(out.ns) :
                 /\ out.ns[i].kind = "insert" => out.ns[i].rr.type # TypeNS
                 /\ out.ns[i].kind = "delrrset" => out.ns[i].type # TypeNS

\* An RRset Delete of type NS at a delegation point, with NS on the allowlist, is
\* rejected by the policy gate.
C14_Witness ==
    /\ Finished("Delete")
    /\ "NS" \in op[Caller].args.allowed
    /\ EqualFold(op[Caller].args.type, "NS")
    /\ NormalizeOwner(op[Caller].args.owner, ServedZone).v # ServedZone
    /\ op[Caller].got.err = "policy violation: NS record updates are not allowed"

\* ------------------------------------------------------------------ C16

\* The labels of a name, without regard to letter case.
LabelsOf(name) == dnsLabels(ToLower(name))

\* The name is at the apex or below it: the labels of the apex end its labels.
AtOrBelow(name, apex) == HasSuffix(LabelsOf(name), LabelsOf(apex))

\* C16: the owner NormalizeOwner returns is the apex or a name strictly below
\* it, and an absolute input that is neither is rejected.
C16_OwnerWithinZone ==
    Finished("NormalizeOwner") =>
        LET a == op[Caller].args
            out == op[Caller].got
        IN  /\ out.ok =>
                 \/ out.v = a.zone
                 \/ /\ AtOrBelow(out.v, a.zone)
                    /\ Len(LabelsOf(out.v)) > Len(LabelsOf(a.zone))
            /\ (HasSuffix(TrimSpace(a.input), <<".">>) /\ ~AtOrBelow(a.input, a.zone))
               => ~out.ok

\* ------------------------------------------------------------------ C17

\* A canonical zone name: lower case, a trailing dot, and before it labels of 1
\* to 63 characters over a-z, 0-9 and the hyphen, none beginning or ending with
\* a hyphen.
CanonicalName(v) ==
    /\ v = ToLower(v)
    /\ HasSuffix(v, <<".">>)
    /\ LET ls == Split(SubSeq(v, 1, Len(v) - 1))
       IN  \A i \in 1..Len(ls) :
             /\ Len(ls[i]) \in 1..63
             /\ \A j \in 1..Len(ls[i]) : ls[i][j] \in LowerChars \cup DigitChars \cup {"-"}
             /\ ls[i][1] # "-"
             /\ ls[i][Len(ls[i])] # "-"

\* C17: what NormalizeZone returns for an input it accepts is a canonical name,
\* and NormalizeZone accepts it and returns it unchanged.
C17_NormalizeIdempotent ==
    (Finished("NormalizeZone") /\ op[Caller].got.ok) =>
        /\ CanonicalName(op[Caller].got.v)
        /\ NormalizeZone(op[Caller].got.v) = op[Caller].got

\* NormalizeZone has accepted a name in upper case, with a space before it and
\* no trailing dot, and returned another name for it.
C17_Witness ==
    /\ Finished("NormalizeZone")
    /\ op[Caller].got.ok
    /\ op[Caller].args.input # op[Caller].got.v
    /\ Head(op[Caller].args.input) = " "
    /\ \E i \in 1..Len(op[Caller].args.input) : op[Caller].args.input[i] \in UpperChars
    /\ ~HasSuffix(op[Caller].args.input, <<".">>)

\* ------------------------------------------------------------------ C18

\* strings.ToUpper
ToUpper(s) ==
    [i \in 1..Len(s) |-> CASE s[i] = "a" -> "A" [] s[i] = "b" -> "B" [] OTHER -> s[i]]

\* C18: the member label of a zone is the member label of the zone in upper case
\* and of the zone without its trailing dot; the wire form ends with the root
\* byte; and two zones with different label sequences have different wire forms.
C18_MemberLabelOfWireForm ==
    Finished("SHA1WireLabel") =>
        LET a == op[Caller].args
            out == op[Caller].got
            wire == dnsWireFormat(a.zone)
        IN  /\ out.label = SHA1WireLabel(ToUpper(a.zone))
            /\ out.label = SHA1WireLabel(TrimSuffix(a.zone, <<".">>))
            /\ wire[Len(wire)] = 0
            /\ LabelsOf(a.zone) # LabelsOf(a.other) => wire # dnsWireFormat(a.other)

\* The member labels of two zones made of the same characters, one of two
\* labels and one of a single label, have been computed.
C18_Witness ==
    /\ Finished("SHA1WireLabel")
    /\ op[Caller].args.zone = <<"a", ".", "0", ".">>
    /\ op[Caller].args.other = <<"a", "0", ".">>
    /\ op[Caller].got.label # op[Caller].got.otherLabel

\* ------------------------------------------------------------------ C19

\* What BumpSerial is to return: today's serial for a serial below it, the
\* serial plus one otherwise; a result above the serial and not below today's.
Bumped(currentSerial, now, out) ==
    /\ Less32(currentSerial, out)
    /\ ~Less32(out, todaySerial(now))
    /\ out = IF Less32(currentSerial, todaySerial(now))
             THEN todaySerial(now)
             ELSE IF currentSerial[2] = 99 THEN <<currentSerial[1] + 1, 0>>
             ELSE <<currentSerial[1], currentSerial[2] + 1>>

\* C19 as claimed: for every 32-bit serial, BumpSerial returns a serial that is
\* greater than its input and not below today's serial: today's serial when the
\* input is below it, the input plus one otherwise.
C19_BumpSerialGrows ==
    Finished("BumpSerial") =>
        Bumped(op[Caller].args.currentSerial, op[Caller].args.now, op[Caller].got)

\* C19 as amended: the same for every serial below the largest 32-bit value;
\* for the largest value, 4294967295, BumpSerial wraps around and returns 0.
C19_BumpSerialGrowsBelowMax ==
    Finished("BumpSerial") =>
        IF op[Caller].args.currentSerial # MaxUint32
        THEN Bumped(op[Caller].args.currentSerial, op[Caller].args.now, op[Caller].got)
        ELSE op[Caller].got = <<0, 0>>

\* BumpSerial was given the last revision of today and has returned the first
\* serial of the day after.
C19_Witness ==
    /\ Finished("BumpSerial")
    /\ op[Caller].args.currentSerial = <<todaySerial(op[Caller].args.now)[1], 99>>
    /\ op[Caller].got = <<todaySerial(op[Caller].args.now)[1] + 1, 0>>

\* ------------------------------------------------------------------ C20

\* The owner of the challenge record of a normalized owner.
ChallengeName(owner) ==
    IF containsPrefix(owner, AcmePrefix) THEN owner ELSE AcmePrefix \o owner

\* A name inside the zone, with no empty label.
WellFormedIn(name, zone) ==
    /\ AtOrBelow(name, zone)
    /\ \A i \in 1..Len(LabelsOf(name)) : LabelsOf(name)[i] # <<>>

\* C20: for a zone and an fqdn that NormalizeOwner accepts for it, Present goes
\* on to upsert, and Cleanup to delete, the TXT RRset at the challenge name of
\* the normalized owner, and that name is well formed and inside the zone.
C20_ChallengeOwner ==
    (Finished("Present") \/ Finished("Cleanup")) =>
        LET a == op[Caller].args
            out == op[Caller].got
            zone == NormalizeZone(a.zone)
            owner == NormalizeOwner(a.fqdn, zone.v)
        IN  (zone.ok /\ owner.ok) =>
                /\ out.err = ""
                /\ out.args.type = "TXT"
                /\ out.args.owner = ChallengeName(owner.v)
                /\ WellFormedIn(out.args.owner, zone.v)

\* ------------------------------------------------------------------ C21

\* C21: with an audit file configured (a path is set and the file opens), every
\* command that has run, whatever its verb and whether it reports success or
\* failure, has appended exactly one object to the audit log.
C21_OneAuditObjectPerCommand ==
    (/\ Finished("RunE")
     /\ NewLogger(op[Caller].args.auditPath, op[Caller].args.opened).auditFile)
    => Len(op[Caller].got.audit) = 1

\* ------------------------------------------------------------------ C22

\* C22: rrset upsert calls Upsert and, when the operation has no error to
\* return, reports success; rrset delete that reports success has called
\* Delete, which sends the update; rrset get has called Get.
C22_RRsetVerbsCallManager ==
    Finished("RunE")
    => LET verb == op[Caller].args.verb
           r == op[Caller].got
       IN  /\ verb = "rrset_upsert"
              => "Upsert" \in r.calls /\ (op[Caller].args.err = "" => r.ok)
           /\ (verb = "rrset_delete" /\ r.ok) => "Delete" \in r.calls
           /\ verb = "rrset_get" => "Get" \in r.calls

\* ------------------------------------------------------------------ C30

\* What Upsert returns and sends for a call.
UpsertOutcome(allowed, z, o, t, ttl, rd) ==
    LET v == UpsertValidate(allowed, z, o, t, ttl, rd)
        a == v.args
        rrs == [i \in 1..Len(a.rdata) |-> BuildRR(a.owner, a.type, a.ttl, a.rdata[i])]
    IN  [err |-> v.err, ns |-> IF v.err = "" THEN AddRRset(v.zone, rrs).ns ELSE <<>>]

\* What Delete returns and sends for a call.
DeleteOutcome(allowed, z, o, t) ==
    LET v == DeleteValidate(allowed, z, o, t)
    IN  [err |-> v.err,
         ns |-> IF v.err = ""
                THEN DeleteRRset(v.zone, v.args.owner, StringToType(v.args.type)).ns
                ELSE <<>>]

\* C30: Upsert and Delete of a type of the allowlist written in any case
\* return and send what they do for the type in upper case, and no update
\* that Delete sends names the type code 0.
C30_TypeCaseInsensitive ==
    LET a == op[Caller].args
        r == op[Caller].got
    IN  /\ (Finished("Upsert") /\ IsAllowedRRType(a.allowed, a.type))
           => r = UpsertOutcome(a.allowed, a.zone, a.owner, ToUpperType(a.type),
                                a.ttl, a.rdata)
        /\ (Finished("Delete") /\ IsAllowedRRType(a.allowed, a.type))
           => /\ r = DeleteOutcome(a.allowed, a.zone, a.owner, ToUpperType(a.type))
              /\ \A i \in 1..Len(r.ns) : r.ns[i].type # TypeNone

\* ------------------------------------------------------------------ C26

\* The flags the gate is to allow for a subcommand: those of its table, and
\* none for a subcommand without one.
FlagAllowlist(subcommand) ==
    IF subcommand \in DOMAIN allowedFlags THEN allowedFlags[subcommand] ELSE {}

\* C26: a command line that Handle lets through has words, its first word is
\* one of doctor, version, zone, rrset and acme, and each later word that
\* begins with a hyphen names, after its one or two leading hyphens, a flag of
\* the allowlist of that subcommand; ValidateCommand lets through no command
\* without words or with another first word.
C26_GateLetsThroughValidatedOnly ==
    Finished("Handle")
    => LET parts == Fields(op[Caller].args.originalCmd)
           r == op[Caller].got
       IN  /\ r.validate = ""
              => Len(parts) > 0 /\ parts[1] \in allowedSubcommands
           /\ r.err = ""
              => /\ Len(parts) > 0
                 /\ parts[1] \in allowedSubcommands
                 /\ \A i \in 2..Len(parts) :
                       HasPrefix(parts[i], <<"-">>)
                       => TrimPrefix(TrimPrefix(parts[i], <<"-">>), <<"-">>)
                              \in FlagAllowlist(parts[1])

\* ------------------------------------------------------------------ C24

\* The handle p makes the call and has its result in the next state.
Calls(p, call) ==
    pc[p] = "handle" /\ pc'[p] = "called" /\ op'[p].got.call = call

\* The call of p fails and changes nothing: no holder, no lock and no handle.
FailsCleanly(p) ==
    /\ op'[p].got.err # ""
    /\ held' = held /\ flock' = flock
    /\ \A q \in Procs : op'[q].args = op[q].args

\* C24: Acquire and Release are single steps that return. An Acquire of an
\* exclusive handle on a path whose lock another handle holds fails, and so
\* does an Acquire on a handle that holds; both leave every holder and the
\* handle as they were, the handle that did not hold without the lock and with
\* no file. A Release of a handle that holds nothing succeeds and changes
\* nothing, and a Release that succeeds leaves the handle holding nothing, so
\* that a second Release is such a no-op.
C24_AcquireFailsCleanly ==
    [][\A p \in Procs :
        /\ (/\ Calls(p, "Acquire")
            /\ ~held[p] /\ ~op[p].args.readOnly
            /\ flock[op[p].args.path] \ {p} # {})
           => /\ FailsCleanly(p)
              /\ ~held'[p] /\ op'[p].args.file = "nil" /\ p \notin flock'[op[p].args.path]
        /\ (Calls(p, "Acquire") /\ held[p]) => FailsCleanly(p) /\ held'[p]
        /\ (Calls(p, "Release") /\ ~held[p])
           => /\ op'[p].got.err = ""
              /\ held' = held /\ flock' = flock
              /\ \A q \in Procs : op'[q].args = op[q].args
        /\ (Calls(p, "Release") /\ op'[p].got.err = "")
           => ~held'[p] /\ op'[p].args.file = "nil" /\ p \notin flock'[op[p].args.path]
      ]_vars

\* An exclusive Acquire has just failed on a lock that the other handle holds,
\* and the other handle has failed to acquire again the lock it holds.
C24_Witness ==
    \E p, q \in Procs :
        /\ p # q
        /\ pc[p] = "called" /\ op[p].got = [call |-> "Acquire", err |-> "failed to acquire lock"]
        /\ ~op[p].args.readOnly /\ ~held[p]
        /\ held[q] /\ q \in flock[op[p].args.path]
        /\ pc[q] = "called" /\ op[q].got = [call |-> "Acquire", err |-> "lock already held"]

\* ------------------------------------------------------------------ C27

\* C27: a Create on a zone that the nameserver had when the Create took the
\* lock returns, with or without an error, without having written the zone
\* file, removed it or called DelZone, and with the file as it was.
C27_CreateSparesRegisteredZone ==
    \A p \in Procs :
        (Returning(p, "create") /\ op[p].pre.reg)
        => /\ op[p].fx \cap {"write", "rmfile", "delzone"} = {}
           /\ file[op[p].zone] = op[p].pre.file

\* ------------------------------------------------------------------ C28

\* C28: in every state that Create and Delete reach, a zone whose PTR record
\* is in the catalog is registered in the nameserver.
C28_MemberIsRegistered ==
    \A z \in Zones : InCatalog(db, z) => registered[z]

\* ------------------------------------------------------------------ C25

\* The last call of the operation of p was an exchange with the server.
ExchangeMade(p) == op[p].xchg # NoExchange

\* A response has arrived and its Rcode is one of rcodes.
Answered(x, rcodes) == x.reached /\ x.delivered /\ x.rcode \in rcodes

\* C25: after the exchange of an update to which no response with NOERROR has
\* arrived (another Rcode, a transport error, no response), the operation has
\* an error, goes on to return or to roll back, and has not recorded
\* catalog_updated; an operation that is without an error after its update has
\* had the NOERROR response. After the exchange of a query the operation is
\* without an error if a response with NOERROR or NXDOMAIN has arrived, and has
\* an error otherwise.
C25_ExchangeOutcome ==
    \A p \in Procs :
        ExchangeMade(p)
        => LET o == op[p]
               x == o.xchg
           IN  IF o.kind = "get"
               THEN (o.err = "") = Answered(x, {RcodeSuccess, RcodeNameError})
               ELSE /\ ~Answered(x, {RcodeSuccess})
                       => /\ o.err # ""
                          /\ pc[p] \in {"ret", "c_rollback_delzone"}
                          /\ ~Has(o.changes, "catalog_updated")
                    /\ o.err = "" => Answered(x, {RcodeSuccess})

\* The server has applied the catalog update of a Create and the response is
\* lost.
C25_Witness ==
    \E p \in Procs :
        /\ ExchangeMade(p) /\ op[p].kind = "create"
        /\ Applied(op[p].xchg) /\ ~op[p].xchg.delivered
        /\ op[p].err # ""

\* ------------------------------------------------------------------ C23

\* The PTR records of the server that point to a zone.
PTRsTo(rrs, zone) == {rr \in rrs : rr.type = TypePTR /\ rr.rdata = Fqdn(zone)}

CatalogPCs == {"c_ensure_existing", "c_ensure", "d_catalog"}

\* The server has applied the update that the operation sent under the tag.
UpdateApplied(o, tag) == tag \in o.fx /\ tag \notin o.bad

\* C23: with Creates and Deletes of two zones interleaved in every way, the
\* PTR records that point to a zone change only in the catalog step of an
\* operation on that zone, never in a step of an operation on the other zone;
\* and when an operation comes to return, the membership of its zone is the one
\* its own catalog update makes of the membership it found when it took the
\* lock: a member after an applied Ensure, none after an applied Remove, and
\* as it was otherwise.
C23_ZonesIndependentInCatalog ==
    [][/\ \A z \in Zones :
            PTRsTo(db', z) # PTRsTo(db, z)
            => \E p \in Procs :
                   op[p].zone = z /\ pc[p] \in CatalogPCs /\ pc'[p] # pc[p]
       /\ \A p \in Procs :
            (/\ pc[p] # "ret" /\ pc'[p] = "ret" /\ held'[p]
             /\ op'[p].kind \in {"create", "delete"})
            => InCatalog(db', op'[p].zone)
                   = (IF UpdateApplied(op'[p], "ensure") THEN TRUE
                      ELSE IF UpdateApplied(op'[p], "remove") THEN FALSE
                      ELSE op'[p].pre.mem)
      ]_vars

\* A Create of one zone returns with the zone a member while a Delete of the
\* other zone, which was a member, has removed its membership and holds its
\* lock.
C23_Witness ==
    \E p, q \in Procs :
        /\ op[p].zone # op[q].zone
        /\ Returning(p, "create") /\ op[p].err = "" /\ InCatalog(db, op[p].zone)
        /\ ~op[p].pre.mem
        /\ pc[q] = "d_delzone" /\ op[q].pre.mem /\ ~InCatalog(db, op[q].zone)

\* ------------------------------------------------------------------ C29

\* The operation of p is between taking the zone lock and returning.
InProgress(p) == pc[p] \notin {"idle", "done"} /\ held[p]

====
